---- MODULE Spec2Model ----
(***************************************************************************)
(* Vehicle motion and telemetry simulation engine (queued engine of        *)
(* src/unnamed/part_010, lines 285-1053).                                  *)
(*                                                                         *)
(* Units.  Time is in milliseconds (Date.now()).  Positions are one        *)
(* dimensional: the latitude of a point measured along a meridian, in      *)
(* units of 1/3600 km, so that haversineKm is the absolute difference and  *)
(* speed [km/h] * dt [s] is a distance in the same unit.  Temperatures are *)
(* in 1/1000 degC, fuel level in 1/10000 percent, fuel volumes in          *)
(* 1/10000 litre, fuel consumption rates in 1/10 L/100km.                  *)
(***************************************************************************)
EXTENDS Integers, Sequences, FiniteSets, TLC

VARIABLES
  now,                            \* Date.now()
  vehicles,                       \* the registry: a sequence of vehicle records
  timer,                          \* TRUE while the setInterval handle is set
  tickMs,                         \* the interval startSimulation was given
  nextTickAt,                     \* when the interval timer is next due
  lastTick,
  emergencyStates,                \* Map id -> [isOn, nextChangeAt]
  lastApiCallAt,
  pendingQueue,                   \* tasks waiting in the work queue
  queueActive,
  consecutiveDirectionsFailures,
  vehicleStuckState,              \* Map id -> [failedAt, retryCount]
  waiters,                        \* processQueue invocations suspended in setTimeout
  running,                        \* processQueue invocations suspended in await task()
  tickPos,                        \* 0: no tick executing; k: the loop is at vehicles[k]
  tickDt,                         \* dtSec of the executing tick
  tickCount,                      \* number of timer callbacks run so far
  enqueued,                       \* number of tasks ever given to enqueueApiWork
  started,                        \* number of tasks ever started by processQueue
  calls,                          \* the latest outbound call and its gap to the one before
  lastRequest                     \* the latest call of an exported function and its result

vars == <<now, vehicles, timer, tickMs, nextTickAt, lastTick, emergencyStates,
          lastApiCallAt, pendingQueue, queueActive, consecutiveDirectionsFailures,
          vehicleStuckState, waiters, running, tickPos, tickDt, tickCount,
          enqueued, started, calls, lastRequest>>

----------------------------------------------------------------------------
(* Program constants *)

TICK_RATE_MS == 2000
TANK_CAPACITY_L == 93
MAX_HISTORY == 3600
EMERGENCY_MIN_HOLD_MS == 30000
EMERGENCY_MAX_HOLD_MS == 90000
MIN_LOCAL_RANGE == 3
MAX_LOCAL_RANGE == 20
API_MIN_INTERVAL_MS == 3000
MAX_API_RETRIES == 2
ROUTE_FAILURE_TIMEOUT_MS == 180000
RETRY_DELAY_MS == 8000
EMERGENCY_DEFER_MS == 5000

\* 1 - exp(-dtSec/60) for dtSec = TICK_RATE_MS/1000, times 10000
ALPHA_PER_10000 == 328

Km(x) == x * 3600

\* The latitudes of REGIONAL_STATIONS relative to the first one, (lat - lat1) * 111 km
REGIONAL_STATIONS ==
  << 0, 2989, -7201, 9475, -3912,
     -14078, -76256, 36983, 81171,
     -216200, -249590,
     79393, 973418, 1362113, 1339247,
     191273, 324471,
     -95109, -274929 >>

FALLBACK_LOCATIONS == SubSeq(REGIONAL_STATIONS, 1, 5)

----------------------------------------------------------------------------
(* Maps *)

EmptyMap == << >>
MapHas(m, k) == k \in DOMAIN m
MapSet(m, k, v) == [x \in (DOMAIN m) \cup {k} |-> IF x = k THEN v ELSE m[x]]
MapDelete(m, k) == [x \in (DOMAIN m) \ {k} |-> m[x]]

----------------------------------------------------------------------------
(* Numeric helpers *)

Max(a, b) == IF a >= b THEN a ELSE b
Min(a, b) == IF a <= b THEN a ELSE b
Abs(a) == IF a >= 0 THEN a ELSE -a

\* Math.max(min, Math.min(max, n))
clamp(n, min, max) == Max(min, Min(max, n))

haversineKm(lat0, lat1) == Abs(lat1 - lat0)

\* atan2(0, x): 0 for x >= 0 (north, or no movement), 180 for x < 0 (south)
bearingDeg(lat0, lat1) == IF lat1 >= lat0 THEN 0 ELSE 180

\* 0.015 * speed^1.2 in 1/10 L/100km, by a quadratic that meets it at 10 and 110 km/h
SpeedFuelTerm(speed) == (speed * (150 + speed)) \div 700

----------------------------------------------------------------------------
(* Telemetry model *)

\* One historical sample of the vehicle's current telemetry
TelemetryPoint(vehicle, t, inst) ==
  [ timestamp         |-> t,
    odometer          |-> vehicle.currentData.odometer,
    fuelLevel         |-> vehicle.currentData.fuelLevel,
    fuelConsumption   |-> inst,
    engineOilTemp     |-> vehicle.currentData.engineOilTemp,
    engineCoolantTemp |-> vehicle.currentData.engineCoolantTemp,
    emergencyLights   |-> vehicle.currentData.emergencyLights ]

\* historicalData.push(point); if (length > MAX_HISTORY) historicalData.shift()
\* (a variant that puts the point in front, and a variant that keeps the oldest samples
\* when the history is full, first)
PushHistory_Prepend(history, point) ==
  IF Len(history) + 1 > MAX_HISTORY THEN <<point>> \o SubSeq(history, 1, Len(history) - 1)
  ELSE <<point>> \o history
PushHistory_DropNewest(history, point) ==
  IF Len(history) >= MAX_HISTORY THEN history ELSE Append(history, point)
PushHistory(history, point) ==
  LET pushed == Append(history, point)
  IN  IF Len(pushed) > MAX_HISTORY THEN Tail(pushed) ELSE pushed

\* litres burnt in this tick, in 1/10000 L; rnd.idle is rand(-0.1, 0.1) L/h in 1/10000 L/h.
\* The product instLPer100km * distanceKm / 360 is taken quotient and remainder apart,
\* which keeps the intermediate values small
LitersUsed(speed, distanceKm, instLPer100km, rnd) ==
  IF speed < 2
    THEN ((7000 + rnd.idle) * (TICK_RATE_MS \div 1000)) \div 3600
    ELSE instLPer100km * (distanceKm \div 360)
           + (instLPer100km * (distanceKm % 360)) \div 360

\* vehicle.currentData.odometer += Math.max(0, distanceKm)
\* (a variant without Math.max)
OdometerAfter_Signed(odometer, distanceKm) == odometer + distanceKm
OdometerAfter(odometer, distanceKm) == odometer + Max(0, distanceKm)

\* The temperature after one step towards its target, before clamping
TempStep(temp, target, jitter) ==
  temp + ((target - temp) * ALPHA_PER_10000) \div 10000 + jitter

\* The coolant and oil temperatures after this sample (a variant without the clamp first)
CoolantAfter_Unclamped(temp, speed, jitter) ==
  TempStep(temp, 88000 + clamp((speed - 40) * 60, -5000, 7000), jitter)
CoolantAfter(temp, speed, jitter) ==
  clamp(TempStep(temp, 88000 + clamp((speed - 40) * 60, -5000, 7000), jitter),
        70000, 100000)

OilAfter(temp, speed, jitter) ==
  clamp(TempStep(temp, 95000 + clamp((speed - 40) * 50, -8000, 10000), jitter),
        75000, 115000)

FuelAfter(fuelLevel, litersUsed) ==
  clamp(fuelLevel - (litersUsed * 100) \div TANK_CAPACITY_L, 0, 1000000)

pushTelemetry(vehicle, t, distanceKm, instLPer100km, rnd) ==
  LET speed == vehicle.currentData.speed
      inst  == IF speed < 2 THEN 0 ELSE instLPer100km
      used  == LitersUsed(speed, distanceKm, instLPer100km, rnd)
      v1    == [vehicle EXCEPT
                  !.currentData.odometer = OdometerAfter(@, distanceKm),
                  !.currentData.fuelLevel = FuelAfter(@, used),
                  !.currentData.engineCoolantTemp = CoolantAfter(@, speed, rnd.coolant),
                  !.currentData.engineOilTemp = OilAfter(@, speed, rnd.oil)]
  IN  [v1 EXCEPT !.historicalData = PushHistory(@, TelemetryPoint(v1, t, inst))]

----------------------------------------------------------------------------
(* Routes.  A geoJSON value is [coords, steps]: the coordinates of its first     *)
(* feature (the empty sequence when there is none) and the steps of its          *)
(* segments, each [from, to, distance (m), duration (s)].                        *)

EmptyGeoJSON == [coords |-> << >>, steps |-> << >>]

getRouteCoordinates(geoJSON) == geoJSON.coords

RECURSIVE StepsToProfile(_)
StepsToProfile(steps) ==
  IF steps = << >> THEN << >>
  ELSE LET step     == Head(steps)
           rawSpeed == IF step.duration > 0
                         THEN (36 * step.distance) \div (10 * step.duration)
                         ELSE 0
           rest     == StepsToProfile(Tail(steps))
       IN  IF step.to > step.from
             THEN <<[from |-> step.from, to |-> step.to,
                     speedKmh |-> clamp(rawSpeed, 5, 120)]>> \o rest
             ELSE rest

buildSpeedProfileFromRoute(geoJSON) ==
  LET profile == StepsToProfile(geoJSON.steps)
      coords  == getRouteCoordinates(geoJSON)
  IN  IF profile = << >> /\ Len(coords) >= 2
        THEN <<[from |-> 0, to |-> Len(coords) - 1, speedKmh |-> 50]>>
        ELSE profile

classifyAdelaideSpeedLimit(rawKmh) ==
  IF rawKmh >= 90 THEN 100
  ELSE IF rawKmh >= 75 THEN 80
  ELSE IF rawKmh >= 58 THEN 60
  ELSE 50

minMovingFloorFor(limitKmh) ==
  IF limitKmh >= 100 THEN 30
  ELSE IF limitKmh >= 80 THEN 30
  ELSE IF limitKmh >= 60 THEN 20
  ELSE 10

\* The while loop of moveAlongRoute; i is the 0-based segment index, coords is 1-based
\* (a variant that stays on a segment whose end it reaches exactly first)
RECURSIVE WalkRoute_StayOnSegment(_, _, _, _)
WalkRoute_StayOnSegment(coords, i, offset, distance) ==
  IF distance > 0 /\ i < Len(coords) - 1
    THEN LET segKm     == haversineKm(coords[i + 1], coords[i + 2])
             remaining == segKm - offset
         IN  IF distance <= remaining
               THEN [i |-> i, offset |-> offset + distance]
               ELSE WalkRoute_StayOnSegment(coords, i + 1, 0, distance - remaining)
    ELSE [i |-> i, offset |-> offset]
RECURSIVE WalkRoute(_, _, _, _)
WalkRoute(coords, i, offset, distance) ==
  IF distance > 0 /\ i < Len(coords) - 1
    THEN LET segKm     == haversineKm(coords[i + 1], coords[i + 2])
             remaining == segKm - offset
         IN  IF distance < remaining
               THEN [i |-> i, offset |-> offset + distance]
               ELSE WalkRoute(coords, i + 1, 0, distance - remaining)
    ELSE [i |-> i, offset |-> offset]

\* lat0 + (lat1 - lat0) * (offset / max(1e-6, segKm))
Interpolate(lat0, lat1, offset) ==
  IF lat1 = lat0 THEN lat0
  ELSE IF lat1 > lat0 THEN lat0 + offset ELSE lat0 - offset

\* if (i >= routeLength - 1): the vehicle is put on the last point, the cursor at the end
\* of the last segment
\* (a variant that leaves the position where it was first)
ReachedEnd_KeepPosition(vehicle, coords) ==
  LET last == Max(0, Len(coords) - 2)
  IN  [vehicle EXCEPT
         !.route.segIndex = last,
         !.route.segOffset = haversineKm(coords[last + 1], coords[last + 2]),
         !.route.atEnd = TRUE]
\* (a variant that leaves the cursor on the last point, past the last segment)
ReachedEnd_CursorOnLastPoint(vehicle, coords) ==
  [vehicle EXCEPT
     !.currentData.latitude = coords[Len(coords)],
     !.route.segIndex = Len(coords) - 1,
     !.route.segOffset = 0,
     !.route.atEnd = TRUE]
ReachedEnd(vehicle, coords) ==
  LET last == Max(0, Len(coords) - 2)
  IN  [vehicle EXCEPT
         !.currentData.latitude = coords[Len(coords)],
         !.route.segIndex = last,
         !.route.segOffset = haversineKm(coords[last + 1], coords[last + 2]),
         !.route.atEnd = TRUE]

\* (a variant without the test of the distance, here and in the loop, first)
moveAlongRoute_Backward(vehicle, distance) ==
  LET coords      == getRouteCoordinates(vehicle.route.geoJSON)
      routeLength == Len(coords)
  IN  IF vehicle.route.atEnd \/ routeLength < 2 THEN vehicle
      ELSE LET w == IF distance <= 0
                      THEN [i |-> vehicle.route.segIndex,
                            offset |-> vehicle.route.segOffset + distance]
                      ELSE WalkRoute(coords, vehicle.route.segIndex,
                                     vehicle.route.segOffset, distance)
           IN  IF w.i >= routeLength - 1
                 THEN ReachedEnd(vehicle, coords)
                 ELSE [vehicle EXCEPT
                         !.currentData.latitude =
                            Interpolate(coords[w.i + 1], coords[w.i + 2], w.offset),
                         !.currentData.heading =
                            bearingDeg(coords[w.i + 1], coords[w.i + 2]),
                         !.route.segIndex = w.i,
                         !.route.segOffset = w.offset]
moveAlongRoute(vehicle, distance) ==
  LET coords      == getRouteCoordinates(vehicle.route.geoJSON)
      routeLength == Len(coords)
  IN  IF vehicle.route.atEnd \/ routeLength < 2 \/ distance <= 0 THEN vehicle
      ELSE LET w == WalkRoute(coords, vehicle.route.segIndex,
                              vehicle.route.segOffset, distance)
           IN  IF w.i >= routeLength - 1
                 THEN ReachedEnd(vehicle, coords)
                 ELSE [vehicle EXCEPT
                         !.currentData.latitude =
                            Interpolate(coords[w.i + 1], coords[w.i + 2], w.offset),
                         !.currentData.heading =
                            bearingDeg(coords[w.i + 1], coords[w.i + 2]),
                         !.route.segIndex = w.i,
                         !.route.segOffset = w.offset]

\* vehicles.find((v) => v.id === id): the index of the first match, 0 when none
\* (a variant that falls back on the first vehicle first)
getVehicle_DefaultFirst(vs, id) ==
  IF \E i \in DOMAIN vs : vs[i].id = id
    THEN CHOOSE i \in DOMAIN vs :
           vs[i].id = id /\ \A j \in DOMAIN vs : vs[j].id = id => i <= j
    ELSE IF Len(vs) > 0 THEN 1 ELSE 0
getVehicle(vs, id) ==
  IF \E i \in DOMAIN vs : vs[i].id = id
    THEN CHOOSE i \in DOMAIN vs :
           vs[i].id = id /\ \A j \in DOMAIN vs : vs[j].id = id => i <= j
    ELSE 0

\* The value setVehicleRoute returns
setVehicleRouteOk(vs, id, geoJSON) ==
  getVehicle(vs, id) # 0 /\ Len(getRouteCoordinates(geoJSON)) >= 2

\* The registry after setVehicleRoute(id, geoJSON)
\* (a variant that keeps the atEnd flag, and a variant that keeps the cursor, of the route
\* before, first)
setVehicleRoute_KeepAtEnd(vs, id, geoJSON) ==
  IF ~setVehicleRouteOk(vs, id, geoJSON) THEN vs
  ELSE LET i      == getVehicle(vs, id)
           coords == getRouteCoordinates(geoJSON)
       IN  [vs EXCEPT
              ![i].route.geoJSON = geoJSON,
              ![i].route.speedProfile = buildSpeedProfileFromRoute(geoJSON),
              ![i].route.segIndex = 0,
              ![i].route.segOffset = 0,
              ![i].currentData.latitude = coords[1],
              ![i].currentData.heading = bearingDeg(coords[1], coords[2])]
setVehicleRoute_KeepCursor(vs, id, geoJSON) ==
  IF ~setVehicleRouteOk(vs, id, geoJSON) THEN vs
  ELSE LET i      == getVehicle(vs, id)
           coords == getRouteCoordinates(geoJSON)
       IN  [vs EXCEPT
              ![i].route.geoJSON = geoJSON,
              ![i].route.speedProfile = buildSpeedProfileFromRoute(geoJSON),
              ![i].route.atEnd = FALSE,
              ![i].currentData.latitude = coords[1],
              ![i].currentData.heading = bearingDeg(coords[1], coords[2])]
setVehicleRoute(vs, id, geoJSON) ==
  IF ~setVehicleRouteOk(vs, id, geoJSON) THEN vs
  ELSE LET i      == getVehicle(vs, id)
           coords == getRouteCoordinates(geoJSON)
       IN  [vs EXCEPT
              ![i].route.geoJSON = geoJSON,
              ![i].route.speedProfile = buildSpeedProfileFromRoute(geoJSON),
              ![i].route.segIndex = 0,
              ![i].route.segOffset = 0,
              ![i].route.atEnd = FALSE,
              ![i].currentData.latitude = coords[1],
              ![i].currentData.heading = bearingDeg(coords[1], coords[2])]

----------------------------------------------------------------------------
(* The work queue.  The queue state is threaded through the synchronous call     *)
(* chains as a record q; an invocation of processQueue that is suspended is an   *)
(* entry of q.waiters (in setTimeout, holding its wake-up time) or of q.running  *)
(* (in await task(), holding the task's execution).                              *)

CurQ ==
  [ pending  |-> pendingQueue,
    active   |-> queueActive,
    lastCall |-> lastApiCallAt,
    waiters  |-> waiters,
    running  |-> running,
    cdf      |-> consecutiveDirectionsFailures,
    enqueued |-> enqueued,
    started  |-> started,
    calls    |-> calls ]

\* The queue before anything was enqueued
CurQInit ==
  [ pending  |-> << >>,
    active   |-> FALSE,
    lastCall |-> 0,
    waiters  |-> << >>,
    running  |-> << >>,
    cdf      |-> 0,
    enqueued |-> 0,
    started  |-> 0,
    calls    |-> [last |-> -1, lastSeq |-> 0, gap |-> -1, same |-> FALSE] ]

SetQ(q) ==
  /\ pendingQueue' = q.pending
  /\ queueActive' = q.active
  /\ lastApiCallAt' = q.lastCall
  /\ waiters' = q.waiters
  /\ running' = q.running
  /\ consecutiveDirectionsFailures' = q.cdf
  /\ enqueued' = q.enqueued
  /\ started' = q.started
  /\ calls' = q.calls

RemoveAt(seq, k) == SubSeq(seq, 1, k - 1) \o SubSeq(seq, k + 1, Len(seq))

NoCalls == [last |-> -1, lastSeq |-> 0, gap |-> -1, same |-> FALSE]

\* A $fetch to the routing dependency is started at time t by task number seq
StartCall(q, t, seq) ==
  [q EXCEPT !.calls =
     [ last    |-> t,
       lastSeq |-> seq,
       gap     |-> IF q.calls.last < 0 THEN -1 ELSE t - q.calls.last,
       same    |-> q.calls.last >= 0 /\ q.calls.lastSeq = seq ]]

\* task() up to its first await: generateRandomRoute reads the vehicle's position and
\* generateNearbyCoordinates starts the snap-coordinates call of attempt 0
StartTask(q, task, vs, t) ==
  StartCall(
    [q EXCEPT !.running = Append(@, [ task    |-> task,
                                      start   |-> vs[task.veh].currentData.latitude,
                                      attempt |-> 0,
                                      phase   |-> "snap",
                                      snap    |-> [ok |-> FALSE, off |-> 0],
                                      end     |-> 0 ]),
              !.started = @ + 1],
    t, task.seq)

\* API_MIN_INTERVAL_MS + Math.min(consecutiveDirectionsFailures * 1000, 7000)
\* (a variant without the adaptive part first)
DynamicInterval_Fixed(cdf) == API_MIN_INTERVAL_MS
DynamicInterval(cdf) == API_MIN_INTERVAL_MS + Min(cdf * 1000, 7000)

\* const task = pendingQueue.shift(); if (!task) break; lastApiCallAt = now; await task()
ShiftAndRun(q, vs, t) ==
  IF Len(q.pending) = 0 THEN [q EXCEPT !.active = FALSE]
  ELSE StartTask([q EXCEPT !.pending = Tail(@), !.lastCall = t], Head(q.pending), vs, t)

\* One pass of the while loop of processQueue, up to its first await
\* (a variant that returns where it should wait first)
ProcessLoop_NoWait(q, vs, t) ==
  IF Len(q.pending) = 0 THEN [q EXCEPT !.active = FALSE]
  ELSE LET wait == Max(0, DynamicInterval(q.cdf) - (t - q.lastCall))
       IN  IF wait > 0 THEN q
           ELSE ShiftAndRun(q, vs, t)
ProcessLoop(q, vs, t) ==
  IF Len(q.pending) = 0 THEN [q EXCEPT !.active = FALSE]
  ELSE LET wait == Max(0, DynamicInterval(q.cdf) - (t - q.lastCall))
       IN  IF wait > 0 THEN [q EXCEPT !.waiters = Append(@, t + wait)]
           ELSE ShiftAndRun(q, vs, t)

\* if (queueActive) return
\* (a variant without the guard first)
QueueBusy_Never(q) == FALSE
QueueBusy(q) == q.active

processQueue(q, vs, t) ==
  IF QueueBusy(q) THEN q ELSE ProcessLoop([q EXCEPT !.active = TRUE], vs, t)

\* enqueueApiWork of the acquisition closure of vehicles[veh]
enqueueApiWork(q, veh, kind, nowTime, vs, t) ==
  processQueue(
    [q EXCEPT !.pending = Append(@, [ veh     |-> veh,
                                      kind    |-> kind,
                                      nowTime |-> nowTime,
                                      seq     |-> q.enqueued + 1 ]),
              !.enqueued = @ + 1],
    vs, t)

----------------------------------------------------------------------------
(* Route acquisition *)

\* Math.max(minKm + 1, maxKm - attemptNum * 2), in km
FinalMaxKm(minKm, maxKm, attemptNum) == Max(minKm + 1, maxKm - attemptNum * 2)

\* pickLocalFallback(30); random is Math.random() in tenths
\* (a variant that picks among all the stations first)
pickLocalFallback_AnyStation(base, minKm, random) ==
  REGIONAL_STATIONS[(random * Len(REGIONAL_STATIONS)) \div 10 + 1]
pickLocalFallback(base, minKm, random) ==
  LET Near(loc) == /\ haversineKm(base, loc) >= Km(minKm)
                   /\ haversineKm(base, loc) <= Km(30)
      nearby == SelectSeq(REGIONAL_STATIONS, Near)
  IN  IF Len(nearby) > 0 THEN nearby[(random * Len(nearby)) \div 10 + 1] ELSE base

\* What generateNearbyCoordinates returns when its snap call settles with outcome snap:
\* [ok |-> FALSE] when it rejects, [ok |-> TRUE, off |-> d] when it answers base + d
generateNearbyCoordinates(base, minKm, maxKm, attemptNum, snap, random) ==
  LET finalMaxKm == FinalMaxKm(minKm, maxKm, attemptNum)
      snapped    == base + snap.off
  IN  IF snap.ok /\ haversineKm(base, snapped) * 10 <= Km(finalMaxKm) * 18
        THEN snapped
        ELSE pickLocalFallback(base, minKm, random)

\* The answers of the directions service the model draws from
DirectionsResponse(shape, start, end) ==
  LET dir == IF end >= start THEN 1 ELSE -1
  IN  CASE shape = "direct" -> [coords |-> <<start, end>>, steps |-> << >>]
        [] shape = "short"  ->
             [ coords |-> <<start, start + dir * 60, start + dir * 60, start + dir * 150>>,
               steps  |-> <<[from |-> 0, to |-> 3, distance |-> 42, duration |-> 2]>> ]
        [] shape = "point"  -> [coords |-> <<start>>, steps |-> << >>]
        [] OTHER            -> EmptyGeoJSON

\* The closure seed enqueues, after generateRandomRoute has returned
SeedTaskDone(vs, stuck, task, ok, geoJSON, t) ==
  LET id == vs[task.veh].id
  IN  IF ok
        THEN [vs |-> setVehicleRoute(vs, id, geoJSON), stuck |-> stuck]
        ELSE [vs |-> vs,
              stuck |-> MapSet(stuck, id, [failedAt |-> t, retryCount |-> 0])]

\* The closure tick enqueues, after generateRandomRoute has returned
TickTaskDone(vs, stuck, task, ok, geoJSON, t) ==
  LET id == vs[task.veh].id
  IN  IF ok
        THEN [vs |-> [setVehicleRoute(vs, id, geoJSON) EXCEPT
                        ![task.veh].nextRouteGenAt = 0],
              stuck |-> MapDelete(stuck, id)]
        ELSE [vs |-> vs,
              stuck |-> IF MapHas(stuck, id)
                          THEN [stuck EXCEPT ![id].retryCount = @ + 1]
                          ELSE MapSet(stuck, id, [failedAt |-> task.nowTime,
                                                  retryCount |-> 1])]

TaskDone(vs, stuck, task, ok, geoJSON, t) ==
  IF task.kind = "seed" THEN SeedTaskDone(vs, stuck, task, ok, geoJSON, t)
  ELSE TickTaskDone(vs, stuck, task, ok, geoJSON, t)

\* The queue after the snap-coordinates call of running[k] has settled with outcome
\* snap (kept in the execution as the response it received): generateNearbyCoordinates
\* returns the end point and generateRandomRoute starts the directions call
SnapSettled(q, k, snap, random, t) ==
  StartCall([q EXCEPT !.running[k].phase = "dir",
                      !.running[k].snap = snap,
                      !.running[k].end =
                         generateNearbyCoordinates(q.running[k].start, MIN_LOCAL_RANGE,
                                                   MAX_LOCAL_RANGE, q.running[k].attempt,
                                                   snap, random)],
            t, q.running[k].task.seq)

\* for (attempt = 0; attempt <= MAX_API_RETRIES; attempt++): generateRandomRoute returns
\* from the attempt whose directions call succeeds, and from attempt MAX_API_RETRIES
\* (a variant with one attempt more first)
AttemptsDone_OneMore(ok, attempt) == ok \/ attempt = MAX_API_RETRIES + 1
AttemptsDone(ok, attempt) == ok \/ attempt = MAX_API_RETRIES

\* s = [vs, q, es, stuck] after the directions call of running[k] has settled with
\* outcome out.  On success, or on the failure of the last attempt, generateRandomRoute
\* returns, the task's closure applies the result and processQueue goes round its loop;
\* on another failure the next attempt starts its snap-coordinates call
DirectionsSettled(s, k, out, t) ==
  LET r    == s.q.running[k]
      done == AttemptsDone(out.ok, r.attempt)
      res  == TaskDone(s.vs, s.stuck, r.task, out.ok,
                       DirectionsResponse(out.shape, r.start, r.end), t)
      q1   == [s.q EXCEPT !.cdf = IF out.ok THEN 0 ELSE @ + 1]
  IN  IF done
        THEN [s EXCEPT !.vs = res.vs,
                       !.stuck = res.stuck,
                       !.q = ProcessLoop([q1 EXCEPT !.running = RemoveAt(@, k)],
                                         res.vs, t)]
        ELSE [s EXCEPT !.q = StartCall([q1 EXCEPT !.running[k].phase = "snap",
                                                  !.running[k].attempt = @ + 1],
                                       t, r.task.seq)]

----------------------------------------------------------------------------
(* Seeding *)

\* The vehicle seed builds for index i (id amb-00i is modelled as i), placed at its
\* station; draw holds the values of the rand() calls
NewVehicle(i, t, draw) ==
  [ id             |-> i,
    historicalData |-> << >>,
    currentData    |->
      [ timestamp         |-> t,
        odometer          |-> draw.odometer,
        fuelLevel         |-> draw.fuelLevel,
        fuelConsumption   |-> draw.fuelConsumption,
        engineOilTemp     |-> draw.engineOilTemp,
        engineCoolantTemp |-> draw.engineCoolantTemp,
        emergencyLights   |-> FALSE,
        latitude          |-> REGIONAL_STATIONS[((i - 1) % Len(REGIONAL_STATIONS)) + 1],
        heading           |-> 0,
        speed             |-> draw.speed ],
    route          |->
      [ geoJSON      |-> EmptyGeoJSON,
        segIndex     |-> 0,
        segOffset    |-> 0,
        atEnd        |-> FALSE,
        speedProfile |-> << >> ],
    nextRouteGenAt |-> 0 ]

\* The for loop of seed from index i on; s = [vs, q, es] is the registry, the queue
\* state and emergencyStates
RECURSIVE SeedFrom(_, _, _, _, _)
SeedFrom(i, count, s, t, draws) ==
  IF i > count THEN s
  ELSE LET vehicle == NewVehicle(i, t, draws[i])
           q1      == enqueueApiWork(s.q, Len(s.vs) + 1, "seed", t,
                                     Append(s.vs, vehicle), t)
           pushed  == pushTelemetry(vehicle, t, 0, 0, draws[i].rnd)
       IN  SeedFrom(i + 1, count,
                    [ vs |-> Append(s.vs, pushed),
                      q  |-> q1,
                      es |-> MapSet(s.es, vehicle.id,
                                    [ isOn         |-> FALSE,
                                      nextChangeAt |-> t + draws[i].hold ]) ],
                    t, draws)

seed(count, s, t, draws) == SeedFrom(1, count, s, t, draws)

----------------------------------------------------------------------------
(* The tick *)

\* profile.find((p) => segIdx >= p.from && segIdx < p.to)?.speedKmh, 50 when none
RECURSIVE TargetSpeed(_, _)
TargetSpeed(profile, segIdx) ==
  IF profile = << >> THEN 50
  ELSE IF segIdx >= Head(profile).from /\ segIdx < Head(profile).to
         THEN Head(profile).speedKmh
         ELSE TargetSpeed(Tail(profile), segIdx)

\* The speed of this tick: eased towards the jittered limit of the segment
SpeedAfter(vehicle, dtSec, jitter) ==
  LET limit    == classifyAdelaideSpeedLimit(
                    TargetSpeed(vehicle.route.speedProfile, vehicle.route.segIndex))
      jittered == clamp(limit + jitter, 0, 110)
      current  == vehicle.currentData.speed
      desired  == Max(jittered, minMovingFloorFor(limit))
      maxDelta == 6 * dtSec
      delta    == clamp(desired - current, -maxDelta, maxDelta)
  IN  clamp(current + delta, 0, 110)

\* The emergency-light state of a vehicle after this tick's decision
EmergencyAfter(es, id, t, draw) ==
  LET state == IF MapHas(es, id) THEN es[id]
               ELSE [isOn |-> FALSE, nextChangeAt |-> t + draw.hold]
  IN  IF t >= state.nextChangeAt
        THEN IF draw.toggle
               THEN [isOn |-> ~state.isOn, nextChangeAt |-> t + draw.hold]
               ELSE [state EXCEPT !.nextChangeAt = t + EMERGENCY_DEFER_MS]
        ELSE state

\* timeSinceFailure >= ROUTE_FAILURE_TIMEOUT_MS
\* (a variant with > first)
StuckTooLong_Strict(t, failedAt) == t - failedAt > ROUTE_FAILURE_TIMEOUT_MS
StuckTooLong(t, failedAt) == t - failedAt >= ROUTE_FAILURE_TIMEOUT_MS

\* The vehicle with this tick's speed and emergency lights; a route of fewer than two
\* coordinates is marked as finished
\* (a variant that leaves atEnd as it is first)
TickPrepare_KeepAtEnd(v0, speed, state) ==
  [v0 EXCEPT !.currentData.speed = speed,
             !.currentData.emergencyLights = state.isOn]
TickPrepare(v0, speed, state) ==
  [v0 EXCEPT !.currentData.speed = speed,
             !.currentData.emergencyLights = state.isOn,
             !.route.atEnd =
                IF Len(getRouteCoordinates(v0.route.geoJSON)) < 2 THEN TRUE ELSE @]

\* const inst = clamp(fuelConsumption + 0.015 * speed^1.2 + rand(-0.3, 0.3), 3.5, 20)
InstConsumption(v, draw) ==
  clamp(v.currentData.fuelConsumption + SpeedFuelTerm(v.currentData.speed) + draw.inst,
        35, 200)

\* The end of the loop body: the telemetry sample, the timestamp, the halt at the end
\* (a variant without the halt first)
TickSample_NoHalt(s, i, t, draw, state, distance, atEnd, stuck1, v6, q1) ==
  [ vs    |-> [s.vs EXCEPT ![i] =
                 [pushTelemetry(v6, t, distance, InstConsumption(v6, draw), draw.rnd)
                    EXCEPT !.currentData.timestamp = t]],
    q     |-> q1,
    es    |-> MapSet(s.es, v6.id, state),
    stuck |-> stuck1 ]
TickSample(s, i, t, draw, state, distance, atEnd, stuck1, v6, q1) ==
  [ vs    |-> [s.vs EXCEPT ![i] =
                 [pushTelemetry(v6, t, distance, InstConsumption(v6, draw), draw.rnd)
                    EXCEPT !.currentData.timestamp = t,
                           !.currentData.speed = IF atEnd THEN 0 ELSE @]],
    q     |-> q1,
    es    |-> MapSet(s.es, v6.id, state),
    stuck |-> stuck1 ]

\* if (vehicle.route.atEnd): wait out the backoff, or enqueue a request for a route
TickRequest(s, i, t, draw, state, distance, atEnd, stuck1, v5) ==
  LET deferred == v5.nextRouteGenAt # 0 /\ t < v5.nextRouteGenAt
      v6       == IF ~atEnd THEN v5
                  ELSE IF deferred THEN [v5 EXCEPT !.currentData.speed = 0]
                  ELSE [v5 EXCEPT !.nextRouteGenAt = t + RETRY_DELAY_MS]
      q1       == IF atEnd /\ ~deferred
                    THEN enqueueApiWork(s.q, i, "tick", t, [s.vs EXCEPT ![i] = v6], t)
                    ELSE s.q
  IN  TickSample(s, i, t, draw, state, distance, atEnd, stuck1, v6, q1)

\* The relocation of a vehicle whose acquisitions have failed for too long
TickRelocate(s, i, t, draw, state, distance, v4) ==
  LET id       == v4.id
      atEnd    == v4.route.atEnd
      relocate == /\ atEnd
                  /\ MapHas(s.stuck, id)
                  /\ StuckTooLong(t, s.stuck[id].failedAt)
      v5       == IF relocate
                    THEN [v4 EXCEPT
                            !.currentData.latitude =
                               FALLBACK_LOCATIONS[(draw.random * Len(FALLBACK_LOCATIONS))
                                                    \div 10 + 1],
                            !.currentData.speed = 0]
                    ELSE v4
      stuck1   == IF relocate THEN MapDelete(s.stuck, id) ELSE s.stuck
  IN  TickRequest(s, i, t, draw, state, distance, atEnd, stuck1, v5)

\* const distance = (speed * dtSec) / 3600; moveAlongRoute(vehicle, distance)
TickMove(s, i, t, dtSec, draw, state, v3) ==
  TickRelocate(s, i, t, draw, state, v3.currentData.speed * dtSec,
               moveAlongRoute(v3, v3.currentData.speed * dtSec))

\* The body of the for loop of tick for vehicles[i]; s = [vs, q, es, stuck]
TickBody(s, i, t, dtSec, draw) ==
  TickMove(s, i, t, dtSec, draw, EmergencyAfter(s.es, s.vs[i].id, t, draw),
           TickPrepare(s.vs[i], SpeedAfter(s.vs[i], dtSec, draw.jitter),
                       EmergencyAfter(s.es, s.vs[i].id, t, draw)))

\* for (const vehicle of vehicles): the position after vehicles[i], 0 after the last.
\* failed tells whether vehicles[i] is awaiting a route after a failed acquisition
\* (a variant in which a failed acquisition ends the loop first)
TickLoopNext_ThrowOnFailure(i, n, failed) == IF failed \/ i >= n THEN 0 ELSE i + 1
TickLoopNext(i, n, failed) == IF i < n THEN i + 1 ELSE 0

\* tick has no await: its loop over the vehicles is one synchronous run, and the event
\* loop starts a callback (a timer, a settled fetch) only when no such run is under way
\* (a variant in which tick would yield to the event loop first)
CanRunCallback_TickAwaits == TRUE
CanRunCallback == tickPos = 0

----------------------------------------------------------------------------
(* Bounds and the values the model draws for rand(), Math.random() and the       *)
(* answers of the routing dependency                                             *)

MaxVehicles == 2
MaxClockSteps == 8

Epoch == 1000 * 1000 * 1000

LowSeed ==
  [ odometer |-> Km(5000), fuelLevel |-> 400000, fuelConsumption |-> 55,
    engineOilTemp |-> 60000, engineCoolantTemp |-> 60000, speed |-> 10,
    hold |-> EMERGENCY_MIN_HOLD_MS, rnd |-> [idle |-> 0, coolant |-> 0, oil |-> 0] ]

PlainTick ==
  [ jitter |-> 4, toggle |-> FALSE, hold |-> EMERGENCY_MIN_HOLD_MS, random |-> 0,
    inst |-> 0, rnd |-> [idle |-> 0, coolant |-> 0, oil |-> 0] ]

SnapFails == [ok |-> FALSE, off |-> 0]
SnapNear == [ok |-> TRUE, off |-> Km(5)]

DirectionsFail == [ok |-> FALSE, shape |-> "none"]
DirectionsOk(shape) == [ok |-> TRUE, shape |-> shape]

CoarseRand ==
  [ seedDraws |-> {LowSeed},
    tickDraws |-> {PlainTick},
    snaps     |-> {SnapFails, SnapNear},
    randoms   |-> {0},
    dirs      |-> {DirectionsFail, DirectionsOk("short"), DirectionsOk("empty")} ]

----------------------------------------------------------------------------
(* Actions *)

\* A call of an exported function: its name, its number, its arguments, what it
\* returned (TRUE for a function that returns nothing) and the name of the call before
Request(op, seq, id, geoJSON, result, prev) ==
  [ op |-> op, seq |-> seq, id |-> id, geoJSON |-> geoJSON, result |-> result,
    prev |-> prev ]

NoRequest == Request("none", 0, 0, EmptyGeoJSON, TRUE, "none")

Init ==
  /\ now = Epoch
  /\ vehicles = << >>
  /\ timer = FALSE
  /\ tickMs = 0
  /\ nextTickAt = 0
  /\ lastTick = Epoch
  /\ emergencyStates = EmptyMap
  /\ lastApiCallAt = 0
  /\ pendingQueue = << >>
  /\ queueActive = FALSE
  /\ consecutiveDirectionsFailures = 0
  /\ vehicleStuckState = EmptyMap
  /\ waiters = << >>
  /\ running = << >>
  /\ tickPos = 0
  /\ tickDt = 0
  /\ tickCount = 0
  /\ enqueued = 0
  /\ started = 0
  /\ calls = NoCalls
  /\ lastRequest = NoRequest

\* if (timer) return
\* (a variant without the test first)
AlreadyRunning_Never(t) == FALSE
AlreadyRunning(t) == t

\* startSimulation(count, tms): nothing when the timer is set; otherwise seed, then
\* setInterval
StartSimulationR(R, count, tms) ==
  /\ CanRunCallback
  /\ lastRequest' = Request("startSimulation", lastRequest.seq + 1, 0, EmptyGeoJSON, TRUE,
                            lastRequest.op)
  /\ IF AlreadyRunning(timer)
       THEN UNCHANGED <<now, vehicles, timer, tickMs, nextTickAt, lastTick,
                        emergencyStates, lastApiCallAt, pendingQueue, queueActive,
                        consecutiveDirectionsFailures, vehicleStuckState, waiters,
                        running, tickPos, tickDt, tickCount, enqueued, started, calls>>
       ELSE /\ \E draws \in [1..count -> R.seedDraws] :
                 \E s \in {seed(count, [vs |-> vehicles, q |-> CurQ,
                                        es |-> emergencyStates],
                                 now, draws)} :
                     /\ vehicles' = s.vs
                     /\ emergencyStates' = s.es
                     /\ SetQ(s.q)
            /\ lastTick' = now
            /\ timer' = TRUE
            /\ tickMs' = tms
            /\ nextTickAt' = now + tms
            /\ UNCHANGED <<now, vehicleStuckState, tickPos, tickDt, tickCount>>

\* The handle after stopSimulation: if (timer) { clearInterval(timer); timer = null }
\* (a variant that leaves the interval running first)
TimerAfterStop_Kept(t) == t
TimerAfterStop(t) == FALSE

\* stopSimulation()
StopSimulation ==
  /\ CanRunCallback
  /\ lastRequest' = Request("stopSimulation", lastRequest.seq + 1, 0, EmptyGeoJSON, TRUE,
                            lastRequest.op)
  /\ timer' = TimerAfterStop(timer)
  /\ UNCHANGED <<now, vehicles, tickMs, nextTickAt, lastTick, emergencyStates,
                 lastApiCallAt, pendingQueue, queueActive,
                 consecutiveDirectionsFailures, vehicleStuckState, waiters, running,
                 tickPos, tickDt, tickCount, enqueued, started, calls>>

\* setVehicleRoute(id, geoJSON), called from outside the engine
SetVehicleRoute(id, geoJSON) ==
  /\ CanRunCallback
  /\ lastRequest' = Request("setVehicleRoute", lastRequest.seq + 1, id, geoJSON,
                            setVehicleRouteOk(vehicles, id, geoJSON), lastRequest.op)
  /\ vehicles' = setVehicleRoute(vehicles, id, geoJSON)
  /\ UNCHANGED <<now, timer, tickMs, nextTickAt, lastTick, emergencyStates,
                 lastApiCallAt, pendingQueue, queueActive,
                 consecutiveDirectionsFailures, vehicleStuckState, waiters, running,
                 tickPos, tickDt, tickCount, enqueued, started, calls>>

\* Timers that are due fire before the clock moves on
TimersQuiet ==
  /\ ~(timer /\ now >= nextTickAt)
  /\ \A k \in DOMAIN waiters : waiters[k] > now

\* The wall clock advances by d while the simulation runs
AdvanceBy(d, horizon) ==
  /\ CanRunCallback
  /\ timer
  /\ TimersQuiet
  /\ now + d <= horizon
  /\ now' = now + d
  /\ UNCHANGED <<vehicles, timer, tickMs, nextTickAt, lastTick, emergencyStates,
                 lastApiCallAt, pendingQueue, queueActive,
                 consecutiveDirectionsFailures, vehicleStuckState, waiters, running,
                 tickPos, tickDt, tickCount, enqueued, started, calls, lastRequest>>

\* Date.now() is the wall clock: it is adjusted by d, while the timers, which run on the
\* monotonic clock, stay as far away as they were
ClockJump(d) ==
  /\ CanRunCallback
  /\ timer
  /\ now' = now + d
  /\ nextTickAt' = nextTickAt + d
  /\ waiters' = [k \in DOMAIN waiters |-> waiters[k] + d]
  /\ UNCHANGED <<vehicles, timer, tickMs, lastTick, emergencyStates, lastApiCallAt,
                 pendingQueue, queueActive, consecutiveDirectionsFailures,
                 vehicleStuckState, running, tickPos, tickDt, tickCount, enqueued,
                 started, calls, lastRequest>>

\* The setInterval callback: dtSec = (now - lastTick) / 1000; lastTick = now; tick(dtSec)
TimerCallback ==
  /\ CanRunCallback
  /\ timer
  /\ now >= nextTickAt
  /\ tickDt' = (now - lastTick) \div 1000
  /\ lastTick' = now
  /\ nextTickAt' = now + tickMs
  /\ tickCount' = tickCount + 1
  /\ tickPos' = IF Len(vehicles) > 0 THEN 1 ELSE 0
  /\ UNCHANGED <<now, vehicles, timer, tickMs, emergencyStates, lastApiCallAt,
                 pendingQueue, queueActive, consecutiveDirectionsFailures,
                 vehicleStuckState, waiters, running, enqueued, started, calls,
                 lastRequest>>

\* One iteration of the for loop of tick, for vehicles[tickPos]
TickVehicleR(R) ==
  /\ tickPos # 0
  /\ \E draw \in R.tickDraws :
       \E s \in {TickBody([vs |-> vehicles, q |-> CurQ, es |-> emergencyStates,
                            stuck |-> vehicleStuckState],
                           tickPos, now, tickDt, draw)} :
           /\ vehicles' = s.vs
           /\ emergencyStates' = s.es
           /\ vehicleStuckState' = s.stuck
           /\ SetQ(s.q)
           /\ tickPos' = TickLoopNext(tickPos, Len(vehicles),
                                      /\ s.vs[tickPos].route.atEnd
                                      /\ MapHas(s.stuck, s.vs[tickPos].id))
  /\ UNCHANGED <<now, timer, tickMs, nextTickAt, lastTick, tickDt, tickCount,
                 lastRequest>>

\* The setTimeout of a waiting processQueue fires: it shifts the next task and runs it
QueueWake ==
  /\ CanRunCallback
  /\ \E k \in DOMAIN waiters :
       /\ waiters[k] <= now
       /\ SetQ(ShiftAndRun([CurQ EXCEPT !.waiters = RemoveAt(@, k)], vehicles, now))
  /\ UNCHANGED <<now, vehicles, timer, tickMs, nextTickAt, lastTick, emergencyStates,
                 vehicleStuckState, tickPos, tickDt, tickCount, lastRequest>>

\* The snap-coordinates call of a running task settles; generateNearbyCoordinates
\* returns the end point and generateRandomRoute starts the directions call
SnapSettleR(R) ==
  /\ CanRunCallback
  /\ \E k \in DOMAIN running, snap \in R.snaps, random \in R.randoms :
       /\ running[k].phase = "snap"
       /\ SetQ(SnapSettled(CurQ, k, snap, random, now))
  /\ UNCHANGED <<now, vehicles, timer, tickMs, nextTickAt, lastTick, emergencyStates,
                 vehicleStuckState, tickPos, tickDt, tickCount, lastRequest>>

\* The directions call of a running task settles
DirectionsSettleR(R) ==
  /\ CanRunCallback
  /\ \E k \in DOMAIN running, out \in R.dirs :
       /\ running[k].phase = "dir"
       /\ \E s \in {DirectionsSettled([vs |-> vehicles, q |-> CurQ,
                                       es |-> emergencyStates,
                                       stuck |-> vehicleStuckState], k, out, now)} :
            /\ vehicles' = s.vs
            /\ vehicleStuckState' = s.stuck
            /\ SetQ(s.q)
  /\ UNCHANGED <<now, timer, tickMs, nextTickAt, lastTick, emergencyStates,
                 tickPos, tickDt, tickCount, lastRequest>>

----------------------------------------------------------------------------
(* The engine over a few seconds, the clock advancing a second at a time *)

StartSimulation ==
  /\ ~timer
  /\ \E count \in 1..MaxVehicles : StartSimulationR(CoarseRand, count, TICK_RATE_MS)
Advance == AdvanceBy(1000, Epoch + MaxClockSteps * 1000)
TickVehicle == TickVehicleR(CoarseRand)
SnapSettle == SnapSettleR(CoarseRand)
DirectionsSettle == DirectionsSettleR(CoarseRand)

Next ==
  \/ StartSimulation
  \/ Advance
  \/ TimerCallback
  \/ TickVehicle
  \/ QueueWake
  \/ SnapSettle
  \/ DirectionsSettle

Spec == Init /\ [][Next]_vars

----------------------------------------------------------------------------
(* The engine over minutes, with a tick every minute and a routing dependency      *)
(* that cannot snap and mostly fails: long enough for a stuck vehicle to be        *)
(* relocated                                                                       *)

MaxStuckSteps == 4
StuckTickMs == 30 * TICK_RATE_MS

StuckTickDraw == [PlainTick EXCEPT !.random = 5]

StuckRand ==
  [ seedDraws |-> {LowSeed},
    tickDraws |-> {StuckTickDraw},
    snaps     |-> {SnapFails},
    randoms   |-> {0},
    dirs      |-> {DirectionsFail, DirectionsOk("short")} ]

StuckStart ==
  /\ ~timer
  /\ \E count \in 1..MaxVehicles : StartSimulationR(StuckRand, count, StuckTickMs)
StuckAdvance == AdvanceBy(StuckTickMs, Epoch + MaxStuckSteps * StuckTickMs)
StuckTick == TickVehicleR(StuckRand)
StuckSnapSettle == SnapSettleR(StuckRand)
StuckDirectionsSettle == DirectionsSettleR(StuckRand)

NextStuck ==
  \/ StuckStart
  \/ StuckAdvance
  \/ TimerCallback
  \/ StuckTick
  \/ QueueWake
  \/ StuckSnapSettle
  \/ StuckDirectionsSettle

SpecStuck == Init /\ [][NextStuck]_vars

----------------------------------------------------------------------------
(* One vehicle over a few ticks under a wall clock that is set back by a day, and  *)
(* forward again, while a timer is due; the seeds and jitters come from both ends  *)
(* of their ranges, and the calls to the routing dependency settle before the      *)
(* clock moves                                                                     *)

MaxTelemetryTicks == 4
DayMs == 24 * 3600 * 1000

HighSeed ==
  [ odometer |-> Km(150000), fuelLevel |-> 950000, fuelConsumption |-> 120,
    engineOilTemp |-> 80000, engineCoolantTemp |-> 75000, speed |-> 60,
    hold |-> EMERGENCY_MAX_HOLD_MS, rnd |-> [idle |-> 1000, coolant |-> 200, oil |-> 300] ]

HotTick ==
  [ jitter |-> -4, toggle |-> TRUE, hold |-> EMERGENCY_MAX_HOLD_MS, random |-> 9,
    inst |-> 3, rnd |-> [idle |-> 1000, coolant |-> 200, oil |-> 300] ]

ColdTick ==
  [ jitter |-> 4, toggle |-> FALSE, hold |-> EMERGENCY_MIN_HOLD_MS, random |-> 0,
    inst |-> -3, rnd |-> [idle |-> -1000, coolant |-> -200, oil |-> -300] ]

TelemetryRand ==
  [ seedDraws |-> {LowSeed, HighSeed},
    tickDraws |-> {HotTick, ColdTick},
    snaps     |-> {SnapNear},
    randoms   |-> {0},
    dirs      |-> {DirectionsFail, DirectionsOk("direct")} ]

TelemetryStart == ~timer /\ StartSimulationR(TelemetryRand, 1, TICK_RATE_MS)
TelemetryAdvance ==
  /\ running = << >>
  /\ tickCount < MaxTelemetryTicks
  /\ AdvanceBy(TICK_RATE_MS, Epoch + MaxTelemetryTicks * TICK_RATE_MS)
TelemetryClockJump ==
  \E d \in {-DayMs, DayMs} :
    /\ running = << >>
    /\ ~TimersQuiet
    /\ now + d >= Epoch - DayMs
    /\ now + d <= Epoch + MaxTelemetryTicks * TICK_RATE_MS
    /\ ClockJump(d)
TelemetryTick == TickVehicleR(TelemetryRand)
TelemetrySnapSettle == SnapSettleR(TelemetryRand)
TelemetryDirectionsSettle == DirectionsSettleR(TelemetryRand)

NextTelemetry ==
  \/ TelemetryStart
  \/ TelemetryAdvance
  \/ TelemetryClockJump
  \/ TimerCallback
  \/ TelemetryTick
  \/ QueueWake
  \/ TelemetrySnapSettle
  \/ TelemetryDirectionsSettle

SpecTelemetry == Init /\ [][NextTelemetry]_vars

----------------------------------------------------------------------------
(* One vehicle around the moment its history becomes full.  The calls to the       *)
(* routing dependency settle before the clock moves on, so processQueue never has  *)
(* to wait and no setTimeout of it is ever pending.  The run starts from the state *)
(* the engine is in after startSimulation(1) and HistoryPrefill ticks, which       *)
(* HistoryRun computes with the operators of the handlers                          *)

ExtraPushes == 3
HistoryPrefill == MAX_HISTORY - 2

HistoryRand ==
  [ seedDraws |-> {LowSeed},
    tickDraws |-> {PlainTick, HotTick, ColdTick},
    snaps     |-> {SnapNear},
    randoms   |-> {0},
    dirs      |-> {DirectionsOk("short")} ]

\* The task that executes, if any, runs to its end: its snap call answers nearby and its
\* directions call answers with a route
EagerSettle(s, t) ==
  IF s.q.running = << >> THEN s
  ELSE DirectionsSettled([s EXCEPT !.q = SnapSettled(s.q, 1, SnapNear, 0, t)],
                         1, DirectionsOk("short"), t)

\* The state after startSimulation(1) at time t
HistorySeeded(seeded, t) ==
  EagerSettle([vs |-> seeded.vs, q |-> seeded.q, es |-> seeded.es, stuck |-> EmptyMap], t)

\* The state n ticks after state s of time t, a tick every TICK_RATE_MS
RECURSIVE HistoryTicks(_, _, _)
HistoryTicks(s, t, n) ==
  IF Len(s.vs) = 0 \/ n = 0 THEN s
  ELSE IF n = 1
    THEN EagerSettle(TickBody(s, 1, t + TICK_RATE_MS, TICK_RATE_MS \div 1000, PlainTick),
                     t + TICK_RATE_MS)
    ELSE HistoryTicks(HistoryTicks(s, t, n \div 2), t + (n \div 2) * TICK_RATE_MS,
                      n - n \div 2)

HistoryRun(n) ==
  HistoryTicks(
    HistorySeeded(seed(1, [ vs |-> << >>,
                            q  |-> [ pending |-> << >>, active |-> FALSE, lastCall |-> 0,
                                     waiters |-> << >>, running |-> << >>, cdf |-> 0,
                                     enqueued |-> 0, started |-> 0, calls |-> NoCalls ],
                            es |-> EmptyMap ],
                       Epoch, <<LowSeed>>),
                  Epoch),
    Epoch, n)

InitHistory ==
  \E s \in {HistoryRun(HistoryPrefill)} :
    /\ now = Epoch + HistoryPrefill * TICK_RATE_MS
    /\ vehicles = s.vs
    /\ timer = TRUE
    /\ tickMs = TICK_RATE_MS
    /\ nextTickAt = now + TICK_RATE_MS
    /\ lastTick = now
    /\ emergencyStates = s.es
    /\ lastApiCallAt = s.q.lastCall
    /\ pendingQueue = s.q.pending
    /\ queueActive = s.q.active
    /\ consecutiveDirectionsFailures = s.q.cdf
    /\ vehicleStuckState = s.stuck
    /\ waiters = s.q.waiters
    /\ running = s.q.running
    /\ tickPos = 0
    /\ tickDt = TICK_RATE_MS \div 1000
    /\ tickCount = HistoryPrefill
    /\ enqueued = s.q.enqueued
    /\ started = s.q.started
    /\ calls = s.q.calls
    /\ lastRequest = Request("startSimulation", 1, 0, EmptyGeoJSON, TRUE, "none")

HistoryAdvance ==
  /\ running = << >>
  /\ AdvanceBy(TICK_RATE_MS, Epoch + (MAX_HISTORY + ExtraPushes) * TICK_RATE_MS)
HistoryTick == TickVehicleR(HistoryRand)
HistorySnapSettle == SnapSettleR(HistoryRand)
HistoryDirectionsSettle == DirectionsSettleR(HistoryRand)

NextHistory ==
  \/ HistoryAdvance
  \/ TimerCallback
  \/ HistoryTick
  \/ HistorySnapSettle
  \/ HistoryDirectionsSettle

SpecHistory == InitHistory /\ [][NextHistory]_vars

----------------------------------------------------------------------------
(* The engine over a few ticks while the delivery layer assigns routes: to known   *)
(* and unknown vehicles, routes of no, one, two and four points                    *)

MaxRouteTicks == 3
MaxRequests == 2

RouteRand ==
  [ seedDraws |-> {LowSeed},
    tickDraws |-> {PlainTick},
    snaps     |-> {SnapNear},
    randoms   |-> {0},
    dirs      |-> {DirectionsFail, DirectionsOk("direct")} ]

\* The feature collections the delivery layer passes
RouteInputs ==
  { DirectionsResponse(shape, 100, 250) : shape \in {"direct", "short", "point", "empty"} }
    \cup { DirectionsResponse("direct", 250, 100) }

RouteStart == ~timer /\ StartSimulationR(RouteRand, MaxVehicles, TICK_RATE_MS)
RouteAdvance ==
  /\ running = << >>
  /\ AdvanceBy(TICK_RATE_MS, Epoch + MaxRouteTicks * TICK_RATE_MS)
RouteTick == TickVehicleR(RouteRand)
RouteSnapSettle == SnapSettleR(RouteRand)
RouteDirectionsSettle == DirectionsSettleR(RouteRand)
RouteSet ==
  /\ lastRequest.seq <= MaxRequests
  /\ \E id \in {1, MaxVehicles + 1}, geoJSON \in RouteInputs : SetVehicleRoute(id, geoJSON)

NextRoute ==
  \/ RouteStart
  \/ RouteAdvance
  \/ TimerCallback
  \/ RouteTick
  \/ QueueWake
  \/ RouteSnapSettle
  \/ RouteDirectionsSettle
  \/ RouteSet

SpecRoute == Init /\ [][NextRoute]_vars

----------------------------------------------------------------------------
(* The engine started, stopped and started again by the delivery layer, the clock  *)
(* advancing a tick interval at a time whether the engine runs or not              *)

MaxLifeTicks == 3
MaxLifeRequests == 3

LifeRand ==
  [ seedDraws |-> {LowSeed},
    tickDraws |-> {PlainTick},
    snaps     |-> {SnapNear},
    randoms   |-> {0},
    dirs      |-> {DirectionsFail, DirectionsOk("short")} ]

\* The wall clock advances by d while the engine is stopped
IdleBy(d, horizon) ==
  /\ CanRunCallback
  /\ ~timer
  /\ lastRequest.seq > 0
  /\ \A k \in DOMAIN waiters : waiters[k] > now
  /\ now + d <= horizon
  /\ now' = now + d
  /\ UNCHANGED <<vehicles, timer, tickMs, nextTickAt, lastTick, emergencyStates,
                 lastApiCallAt, pendingQueue, queueActive,
                 consecutiveDirectionsFailures, vehicleStuckState, waiters, running,
                 tickPos, tickDt, tickCount, enqueued, started, calls, lastRequest>>

LifeStart ==
  /\ lastRequest.seq < MaxLifeRequests
  /\ \E count \in {1, MaxVehicles} : StartSimulationR(LifeRand, count, TICK_RATE_MS)
LifeStop ==
  /\ lastRequest.seq < MaxLifeRequests
  /\ StopSimulation
LifeAdvance ==
  /\ running = << >>
  /\ AdvanceBy(TICK_RATE_MS, Epoch + MaxLifeTicks * TICK_RATE_MS)
LifeIdle ==
  /\ running = << >>
  /\ IdleBy(TICK_RATE_MS, Epoch + MaxLifeTicks * TICK_RATE_MS)
LifeTick == TickVehicleR(LifeRand)
LifeSnapSettle == SnapSettleR(LifeRand)
LifeDirectionsSettle == DirectionsSettleR(LifeRand)

NextLife ==
  \/ LifeStart
  \/ LifeStop
  \/ LifeAdvance
  \/ LifeIdle
  \/ TimerCallback
  \/ LifeTick
  \/ QueueWake
  \/ LifeSnapSettle
  \/ LifeDirectionsSettle

SpecLife == Init /\ [][NextLife]_vars

----------------------------------------------------------------------------
(* moveAlongRoute on its own: one vehicle at the start of a route, its speed held   *)
(* fixed, moved by speed * dtSec at every tick.  The routes have two to four        *)
(* points, to the north and to the south, some with segments of no length; one      *)
(* vehicle has no route, one stands still, and under a wall clock that is set back  *)
(* before every tick dtSec is negative.                                             *)

MaxMoveTicks == 6

MoveRoutes ==
  { <<0, 100>>, <<100, 28>>, <<10, 10>>, <<0, 36, 108>>, <<0, 36, 12>>, <<0, 72, 72>>,
    <<0, 48, 48, 120>>, << >> }
MoveSpeeds == {0, 12, 18, 36}
MoveIntervals == {1000, 2000}

InitMove ==
  /\ \E coords \in MoveRoutes, speed \in MoveSpeeds, tms \in MoveIntervals,
        back \in BOOLEAN :
       /\ vehicles =
            setVehicleRoute(<<NewVehicle(1, Epoch, [LowSeed EXCEPT !.speed = speed])>>, 1,
                            [coords |-> coords, steps |-> << >>])
       /\ tickMs = tms
       /\ tickDt = IF back THEN -(tms \div 1000) ELSE tms \div 1000
       /\ nextTickAt = Epoch + tms
  /\ now = Epoch
  /\ timer = TRUE
  /\ lastTick = Epoch
  /\ emergencyStates = EmptyMap
  /\ lastApiCallAt = 0
  /\ pendingQueue = << >>
  /\ queueActive = FALSE
  /\ consecutiveDirectionsFailures = 0
  /\ vehicleStuckState = EmptyMap
  /\ waiters = << >>
  /\ running = << >>
  /\ tickPos = 0
  /\ tickCount = 0
  /\ enqueued = 0
  /\ started = 0
  /\ calls = NoCalls
  /\ lastRequest = NoRequest

\* const distance = speed * (dtSec / 3600); moveAlongRoute(vehicle, distance)
MoveTick ==
  /\ tickCount < MaxMoveTicks
  /\ vehicles' = [vehicles EXCEPT
                    ![1] = moveAlongRoute(@, @.currentData.speed * tickDt)]
  /\ tickCount' = tickCount + 1
  /\ now' = now + 1000 * tickDt
  /\ lastTick' = now + 1000 * tickDt
  /\ nextTickAt' = nextTickAt + 1000 * tickDt
  /\ UNCHANGED <<timer, tickMs, emergencyStates, lastApiCallAt, pendingQueue,
                 queueActive, consecutiveDirectionsFailures, vehicleStuckState, waiters,
                 running, tickPos, tickDt, enqueued, started, calls, lastRequest>>

NextMove == MoveTick

SpecMove == InitMove /\ [][NextMove]_vars


----------------------------------------------------------------------------
(* generateNearbyCoordinates over base positions at, near and far from the          *)
(* stations.  The run starts when the queue has just started the one request of a  *)
(* vehicle that stands at the base; its snap calls fail, answer nearby or answer    *)
(* far away, and its directions calls fail or answer                                *)

NearbyBases ==
  { REGIONAL_STATIONS[1], REGIONAL_STATIONS[1] + Km(1), REGIONAL_STATIONS[7],
    REGIONAL_STATIONS[10], REGIONAL_STATIONS[13], REGIONAL_STATIONS[13] + Km(2),
    REGIONAL_STATIONS[14], REGIONAL_STATIONS[17] + Km(45) }

NearbyRand ==
  [ seedDraws |-> {LowSeed},
    tickDraws |-> {PlainTick},
    snaps     |-> {SnapFails, SnapNear, [ok |-> TRUE, off |-> -Km(30)],
                   [ok |-> TRUE, off |-> Km(40)]},
    randoms   |-> {0, 5, 9},
    dirs      |-> {DirectionsFail, DirectionsOk("direct")} ]

InitNearby ==
  /\ \E base \in NearbyBases :
       /\ vehicles = <<[NewVehicle(1, Epoch, LowSeed) EXCEPT !.currentData.latitude = base]>>
       /\ \E q \in {enqueueApiWork(CurQInit, 1, "seed", Epoch, vehicles, Epoch)} :
            /\ pendingQueue = q.pending
            /\ queueActive = q.active
            /\ lastApiCallAt = q.lastCall
            /\ waiters = q.waiters
            /\ running = q.running
            /\ consecutiveDirectionsFailures = q.cdf
            /\ enqueued = q.enqueued
            /\ started = q.started
            /\ calls = q.calls
  /\ now = Epoch
  /\ timer = FALSE
  /\ tickMs = 0
  /\ nextTickAt = 0
  /\ lastTick = Epoch
  /\ emergencyStates = EmptyMap
  /\ vehicleStuckState = EmptyMap
  /\ tickPos = 0
  /\ tickDt = 0
  /\ tickCount = 0
  /\ lastRequest = NoRequest

NextNearby ==
  \/ SnapSettleR(NearbyRand)
  \/ DirectionsSettleR(NearbyRand)

SpecNearby == InitNearby /\ [][NextNearby]_vars


----------------------------------------------------------------------------
(* One vehicle over half a minute, the clock advancing a second at a time, with a  *)
(* routing dependency whose snap calls fail before the clock moves and whose       *)
(* directions calls fail or answer at any time: long enough for the failures to    *)
(* add up and the spacing of the queue to reach its cap                            *)

MaxSpacingSteps == 26

SpacingRand ==
  [ seedDraws |-> {LowSeed},
    tickDraws |-> {PlainTick},
    snaps     |-> {SnapFails},
    randoms   |-> {0},
    dirs      |-> {DirectionsFail, DirectionsOk("short")} ]

NextSpacing ==
  \/ ~timer /\ StartSimulationR(SpacingRand, 1, TICK_RATE_MS)
  \/ /\ \A k \in DOMAIN running : running[k].phase = "dir"
     /\ AdvanceBy(1000, Epoch + MaxSpacingSteps * 1000)
  \/ TimerCallback
  \/ TickVehicleR(SpacingRand)
  \/ QueueWake
  \/ SnapSettleR(SpacingRand)
  \/ DirectionsSettleR(SpacingRand)

SpecSpacing == Init /\ [][NextSpacing]_vars


----------------------------------------------------------------------------
(* The read accessors, called by the delivery layer between the ticks of an engine *)
(* with one or two vehicles.  An array a function returns is [own, items]: own     *)
(* tells whether it is a new array (and not an array the engine holds), items are  *)
(* its elements; a vehicle object is named by its position in the registry, which  *)
(* only ever grows by push                                                         *)

MaxReadTicks == 2
MaxReads == 2

\* return vehicles.slice()
\* (a variant that returns the registry's own array first)
getVehicles_NoCopy(vs) == [own |-> FALSE, items |-> [k \in 1..Len(vs) |-> k]]
getVehicles(vs) == [own |-> TRUE, items |-> [k \in 1..Len(vs) |-> k]]

\* getVehicleTelemetry(id, since); since is << >> when the argument is omitted or
\* null and <<t>> when it is t
\* (a variant that returns the samples after since first)
getVehicleTelemetry_After(vs, id, since) ==
  IF getVehicle(vs, id) = 0 THEN [own |-> TRUE, items |-> << >>]
  ELSE [own |-> TRUE,
        items |-> SelectSeq(vs[getVehicle(vs, id)].historicalData,
                            LAMBDA t : since = << >> \/ t.timestamp > since[1])]
getVehicleTelemetry(vs, id, since) ==
  IF getVehicle(vs, id) = 0 THEN [own |-> TRUE, items |-> << >>]
  ELSE IF since = << >>
    THEN [own |-> TRUE, items |-> vs[getVehicle(vs, id)].historicalData]
    ELSE [own |-> TRUE,
          items |-> SelectSeq(vs[getVehicle(vs, id)].historicalData,
                              LAMBDA t : t.timestamp >= since[1])]

\* getVehicles(), called from outside the engine
GetVehicles ==
  /\ CanRunCallback
  /\ lastRequest.seq <= MaxReads
  /\ lastRequest' = Request("getVehicles", lastRequest.seq + 1, 0, EmptyGeoJSON,
                            getVehicles(vehicles), lastRequest.op)
  /\ UNCHANGED <<now, vehicles, timer, tickMs, nextTickAt, lastTick, emergencyStates,
                 lastApiCallAt, pendingQueue, queueActive,
                 consecutiveDirectionsFailures, vehicleStuckState, waiters, running,
                 tickPos, tickDt, tickCount, enqueued, started, calls>>

\* getVehicleTelemetry(id, since), called from outside the engine
GetVehicleTelemetry(id, since) ==
  /\ CanRunCallback
  /\ lastRequest.seq <= MaxReads
  /\ lastRequest' = Request("getVehicleTelemetry", lastRequest.seq + 1, id,
                            [coords |-> since, steps |-> << >>],
                            getVehicleTelemetry(vehicles, id, since), lastRequest.op)
  /\ UNCHANGED <<now, vehicles, timer, tickMs, nextTickAt, lastTick, emergencyStates,
                 lastApiCallAt, pendingQueue, queueActive,
                 consecutiveDirectionsFailures, vehicleStuckState, waiters, running,
                 tickPos, tickDt, tickCount, enqueued, started, calls>>

\* The caller of getVehicles changes the array it received, returned.push(returned[0]),
\* or a vehicle in it, returned[k].currentData.emergencyLights = !emergencyLights
CallerChanges ==
  /\ CanRunCallback
  /\ lastRequest.op = "getVehicles"
  /\ lastRequest.result.items # << >>
  /\ Len(lastRequest.result.items) <= Len(vehicles)
  /\ \/ /\ lastRequest' = [lastRequest EXCEPT !.result.items = Append(@, @[1])]
        /\ vehicles' = IF lastRequest.result.own THEN vehicles
                       ELSE Append(vehicles, vehicles[1])
     \/ /\ \E k \in DOMAIN lastRequest.result.items :
             vehicles' = [vehicles EXCEPT
                            ![lastRequest.result.items[k]].currentData.emergencyLights = ~@]
        /\ UNCHANGED lastRequest
  /\ UNCHANGED <<now, timer, tickMs, nextTickAt, lastTick, emergencyStates,
                 lastApiCallAt, pendingQueue, queueActive,
                 consecutiveDirectionsFailures, vehicleStuckState, waiters, running,
                 tickPos, tickDt, tickCount, enqueued, started, calls>>

NextRead ==
  \/ \E count \in 1..MaxVehicles :
       ~timer /\ StartSimulationR(RouteRand, count, TICK_RATE_MS)
  \/ /\ running = << >>
     /\ AdvanceBy(TICK_RATE_MS, Epoch + MaxReadTicks * TICK_RATE_MS)
  \/ TimerCallback
  \/ TickVehicleR(RouteRand)
  \/ QueueWake
  \/ SnapSettleR(RouteRand)
  \/ DirectionsSettleR(RouteRand)
  \/ GetVehicles
  \/ \E id \in {1, MaxVehicles + 1},
        since \in {<< >>, <<Epoch>>, <<Epoch + 1>>, <<now>>, <<now + 1>>} :
       GetVehicleTelemetry(id, since)
  \/ CallerChanges

SpecRead == Init /\ [][NextRead]_vars


----------------------------------------------------------------------------
(* The engine of src/server/utils/vehicle-simulation.ts, which awaits its route     *)
(* acquisitions: seed and tick are async functions, and an execution of one of them *)
(* that is suspended at an await is an entry of running, [kind, veh, phase, start,  *)
(* end, dt, distance, at, count, local]: the loop position, the call it awaits      *)
(* ("coords", "snap" or "dir"), the locals of generateRandomRoute, the locals of    *)
(* tick (dtSec, distance, the time it began), and the locals of seed (count, the    *)
(* vehicle it builds, which is not in the registry yet, at holding its now).  The   *)
(* work queue of the other engine does not exist here and its variables stay as     *)
(* they are.  The snap calls settle before the clock moves; the directions calls    *)
(* take any time                                                                    *)

AWAITED_TICK_RATE_MS == 1000
AWAITED_MAX_LOCAL_RANGE == 50
AWAITED_MAX_SPEED == 60

\* 1 - exp(-dtSec/60) for dtSec = AWAITED_TICK_RATE_MS/1000, times 10000
AWAITED_ALPHA_PER_10000 == 165

MaxAwaitedSteps == 2

\* The latitude generateRandomCoordinates falls back on (Adelaide CBD), relative to the
\* first station
AdelaideCbd == 156

\* The values drawn for rand(): the speed wander of a tick and the offset of the
\* candidate end point
AwaitedTick == [PlainTick EXCEPT !.jitter = 2]
AwaitedDelta == Km(6)

\* The outcomes of the call a suspended execution awaits
AwaitedOutcomes(phase) ==
  CASE phase = "dir"    -> {[ok |-> FALSE, off |-> 0, shape |-> "none"],
                            [ok |-> TRUE, off |-> 0, shape |-> "direct"]}
    [] phase = "coords" -> {[ok |-> FALSE, off |-> 0, shape |-> "none"],
                            [ok |-> TRUE, off |-> Km(8), shape |-> "none"]}
    [] OTHER            -> {[ok |-> TRUE, off |-> Km(8), shape |-> "none"]}

\* pushTelemetry of this file: the same function, with this file's TICK_RATE_MS in the
\* idle consumption and in alpha
pushTelemetryAwaited(vehicle, t, distanceKm, instLPer100km, rnd) ==
  LET speed   == vehicle.currentData.speed
      inst    == IF speed < 2 THEN 0 ELSE instLPer100km
      used    == IF speed < 2
                   THEN ((7000 + rnd.idle) * (AWAITED_TICK_RATE_MS \div 1000)) \div 3600
                   ELSE instLPer100km * (distanceKm \div 360)
                          + (instLPer100km * (distanceKm % 360)) \div 360
      coolant == 88000 + clamp((speed - 40) * 60, -5000, 7000)
      oil     == 95000 + clamp((speed - 40) * 50, -8000, 10000)
      v1      == [vehicle EXCEPT
                    !.currentData.odometer = @ + Max(0, distanceKm),
                    !.currentData.fuelLevel = FuelAfter(@, used),
                    !.currentData.engineCoolantTemp =
                       clamp(@ + ((coolant - @) * AWAITED_ALPHA_PER_10000) \div 10000
                               + rnd.coolant, 70000, 100000),
                    !.currentData.engineOilTemp =
                       clamp(@ + ((oil - @) * AWAITED_ALPHA_PER_10000) \div 10000
                               + rnd.oil, 75000, 115000)]
  IN  [v1 EXCEPT !.historicalData = PushHistory(@, TelemetryPoint(v1, t, inst))]

\* generateNearbyCoordinates of this file: the snapped point when the snap call answers
\* within 1.8 times maxKm of the base, the candidate otherwise
AwaitedNearby(base, out) ==
  IF out.ok /\ haversineKm(base, base + out.off) * 10 <= Km(AWAITED_MAX_LOCAL_RANGE) * 18
    THEN base + out.off
    ELSE base + AwaitedDelta

\* What generateRandomRoute returns: the answer of the directions call, or a feature
\* collection that holds the start point alone when the call fails
AwaitedRoute(out, start, end) ==
  IF out.ok THEN DirectionsResponse(out.shape, start, end)
  ELSE [coords |-> <<start>>, steps |-> << >>]

AwaitedFrame(kind, veh, phase, start, dt, distance, at, count, local) ==
  [ kind |-> kind, veh |-> veh, phase |-> phase, start |-> start, end |-> 0, dt |-> dt,
    distance |-> distance, at |-> at, count |-> count, local |-> local ]

\* The loop body of tick up to moveAlongRoute: the speed wander, the emergency lights,
\* the test of the route, the move
AwaitedMoved(v0, state, dtSec) ==
  moveAlongRoute(
    TickPrepare(v0, clamp(v0.currentData.speed + AwaitedTick.jitter, 0, AWAITED_MAX_SPEED),
                state),
    clamp(v0.currentData.speed + AwaitedTick.jitter, 0, AWAITED_MAX_SPEED) * dtSec)

\* The loop body of tick after the acquisition: the sample, the timestamp, the halt
AwaitedFinish(v, t, distance) ==
  [pushTelemetryAwaited(v, t, distance, InstConsumption(v, AwaitedTick), AwaitedTick.rnd)
     EXCEPT !.currentData.timestamp = t,
            !.currentData.speed = IF v.route.atEnd THEN 0 ELSE @]

\* for (const vehicle of vehicles), from vehicles[i] on, in the tick that began at time
\* at, up to its first await or its end; s = [vs, es, running]
RECURSIVE AwaitedLoop(_, _, _, _, _)
AwaitedLoop(s, i, dtSec, at, t) ==
  IF i > Len(s.vs) THEN s
  ELSE LET state == EmergencyAfter(s.es, s.vs[i].id, t, AwaitedTick)
           moved == AwaitedMoved(s.vs[i], state, dtSec)
           es1   == MapSet(s.es, s.vs[i].id, state)
       IN  IF moved.route.atEnd
             THEN [ vs      |-> [s.vs EXCEPT ![i] = moved],
                    es      |-> es1,
                    running |-> Append(s.running,
                                       AwaitedFrame("tick", i, "snap",
                                                    moved.currentData.latitude, dtSec,
                                                    moved.currentData.speed * dtSec, at,
                                                    0, moved)) ]
             ELSE AwaitedLoop([ vs      |-> [s.vs EXCEPT ![i] =
                                               AwaitedFinish(moved, t,
                                                             moved.currentData.speed * dtSec)],
                                es      |-> es1,
                                running |-> s.running ],
                              i + 1, dtSec, at, t)

\* for (let i = 0; i < count; i++) of seed from index i on, up to its await of
\* generateRandomCoordinates
AwaitedSeed(s, i, count, t) ==
  IF i > count THEN s
  ELSE [s EXCEPT !.running =
          Append(@, AwaitedFrame("seed", i, "coords", 0, 0, 0, t, count,
                                 NewVehicle(i, t, LowSeed)))]

\* The state after the call that running[k] awaits has settled with outcome out: the
\* execution goes on to its next await or to its end
AwaitedSettled(s, k, out, t) ==
  LET f    == s.running[k]
      rest == RemoveAt(s.running, k)
      geo  == AwaitedRoute(out, f.start, f.end)
  IN  CASE f.phase = "coords" ->
             [s EXCEPT !.running[k].phase = "snap",
                       !.running[k].start =
                          IF out.ok THEN REGIONAL_STATIONS[1] + out.off ELSE AdelaideCbd,
                       !.running[k].local.currentData.latitude =
                          IF out.ok THEN REGIONAL_STATIONS[1] + out.off ELSE AdelaideCbd]
        [] f.phase = "snap" ->
             [s EXCEPT !.running[k].phase = "dir",
                       !.running[k].end = AwaitedNearby(f.start, out)]
        [] f.kind = "seed" ->
             AwaitedSeed(
               [ vs      |-> Append(setVehicleRoute(s.vs, f.local.id, geo),
                                    pushTelemetryAwaited(f.local, f.at, 0, 0, LowSeed.rnd)),
                 es      |-> MapSet(s.es, f.local.id,
                                    [isOn |-> FALSE, nextChangeAt |-> f.at + LowSeed.hold]),
                 running |-> rest ],
               f.veh + 1, f.count, t)
        [] OTHER ->
             AwaitedLoop(
               [ vs      |-> [setVehicleRoute(s.vs, s.vs[f.veh].id, geo) EXCEPT
                                ![f.veh] = AwaitedFinish(@, t, f.distance)],
                 es      |-> s.es,
                 running |-> rest ],
               f.veh + 1, f.dt, f.at, t)

\* startSimulation(count, tickMs) of this file
AwaitedStart(count, tms) ==
  /\ CanRunCallback
  /\ lastRequest' = Request("startSimulation", lastRequest.seq + 1, 0, EmptyGeoJSON, TRUE,
                            lastRequest.op)
  /\ ~timer
  /\ running' = AwaitedSeed([vs |-> vehicles, es |-> emergencyStates,
                             running |-> running], 1, count, now).running
  /\ lastTick' = now
  /\ timer' = TRUE
  /\ tickMs' = tms
  /\ nextTickAt' = now + tms
  /\ UNCHANGED <<now, vehicles, emergencyStates, lastApiCallAt, pendingQueue,
                 queueActive, consecutiveDirectionsFailures, vehicleStuckState, waiters,
                 tickPos, tickDt, tickCount, enqueued, started, calls>>

\* The setInterval callback of this file: dtSec = (now - lastTick) / 1000;
\* lastTick = now; tick(dtSec), which runs up to its first await and is not awaited
AwaitedTimer ==
  /\ CanRunCallback
  /\ timer
  /\ now >= nextTickAt
  /\ tickDt' = (now - lastTick) \div 1000
  /\ lastTick' = now
  /\ nextTickAt' = now + tickMs
  /\ tickCount' = tickCount + 1
  /\ \E s \in {AwaitedLoop([vs |-> vehicles, es |-> emergencyStates,
                            running |-> running],
                           1, (now - lastTick) \div 1000, now, now)} :
       /\ vehicles' = s.vs
       /\ emergencyStates' = s.es
       /\ running' = s.running
  /\ UNCHANGED <<now, timer, tickMs, lastApiCallAt, pendingQueue, queueActive,
                 consecutiveDirectionsFailures, vehicleStuckState, waiters, tickPos,
                 enqueued, started, calls, lastRequest>>

\* A call that a suspended execution awaits settles
AwaitedSettle ==
  /\ CanRunCallback
  /\ \E k \in DOMAIN running :
       \E out \in AwaitedOutcomes(running[k].phase) :
         \E s \in {AwaitedSettled([vs |-> vehicles, es |-> emergencyStates,
                                   running |-> running], k, out, now)} :
           /\ vehicles' = s.vs
           /\ emergencyStates' = s.es
           /\ running' = s.running
  /\ UNCHANGED <<now, timer, tickMs, nextTickAt, lastTick, lastApiCallAt, pendingQueue,
                 queueActive, consecutiveDirectionsFailures, vehicleStuckState, waiters,
                 tickPos, tickDt, tickCount, enqueued, started, calls, lastRequest>>

NextAwaited ==
  \/ \E count \in 1..MaxVehicles : AwaitedStart(count, AWAITED_TICK_RATE_MS)
  \/ /\ \A k \in DOMAIN running : running[k].phase = "dir"
     /\ AdvanceBy(AWAITED_TICK_RATE_MS, Epoch + MaxAwaitedSteps * AWAITED_TICK_RATE_MS)
  \/ AwaitedTimer
  \/ AwaitedSettle
  \/ lastRequest.op = "startSimulation" /\ GetVehicles

SpecAwaited == Init /\ [][NextAwaited]_vars

-----------------------------------------------------------------------------
(* One vehicle over a minute and a half with a tick every fifteen seconds: long     *)
(* enough for the hold of the emergency lights to run out more than once.  The      *)
(* engine may be stopped and started again, and the routing dependency fails        *)

MaxLightSteps == 6
LightTickMs == EMERGENCY_MIN_HOLD_MS \div 2

ToggleTick == [PlainTick EXCEPT !.toggle = TRUE]
LongHoldTick == [PlainTick EXCEPT !.toggle = TRUE, !.hold = EMERGENCY_MAX_HOLD_MS - 1]

LightsRand ==
  [ seedDraws |-> {LowSeed},
    tickDraws |-> {PlainTick, ToggleTick, LongHoldTick},
    snaps     |-> {SnapFails},
    randoms   |-> {0},
    dirs      |-> {DirectionsFail} ]

NextLights ==
  \/ /\ lastRequest.seq < MaxLifeRequests
     /\ StartSimulationR(LightsRand, 1, LightTickMs)
  \/ /\ lastRequest.seq < MaxLifeRequests
     /\ StopSimulation
  \/ /\ running = << >>
     /\ AdvanceBy(LightTickMs, Epoch + MaxLightSteps * LightTickMs)
  \/ /\ running = << >>
     /\ IdleBy(LightTickMs, Epoch + MaxLightSteps * LightTickMs)
  \/ TimerCallback
  \/ TickVehicleR(LightsRand)
  \/ QueueWake
  \/ SnapSettleR(LightsRand)
  \/ DirectionsSettleR(LightsRand)

SpecLights == Init /\ [][NextLights]_vars

-----------------------------------------------------------------------------
(* The work queue until it has drained.  The engine is started once with one        *)
(* vehicle and stopped at some time within the first seconds, so that the tasks are *)
(* the request of seed and the request of the first tick; the work queue does not   *)
(* stop with the engine, and the clock goes on for as long as an invocation of      *)
(* processQueue waits in setTimeout.  Timers that are due fire, the loop of tick    *)
(* runs on, time passes, and every call to the routing dependency settles in the    *)
(* end, with a failure or an answer: these are the weak fairness conditions         *)

MaxLiveSteps == 4
MaxLiveTasks == 2

LiveStop == timer /\ StopSimulation
LiveClock ==
  \/ AdvanceBy(1000, Epoch + MaxLiveSteps * 1000)
  \/ /\ waiters # << >>
     /\ IdleBy(1000, Max(now, waiters[1]))

NextLive ==
  \/ /\ lastRequest.seq = 0
     /\ StartSimulationR(SpacingRand, 1, TICK_RATE_MS)
  \/ LiveStop
  \/ LiveClock
  \/ TimerCallback
  \/ TickVehicleR(SpacingRand)
  \/ QueueWake
  \/ SnapSettleR(SpacingRand)
  \/ DirectionsSettleR(SpacingRand)

\* The loop of tick moves on to the next vehicle: tick is synchronous, it never stalls
TickRuns ==
  /\ tickPos # 0
  /\ tickPos' = TickLoopNext(tickPos, Len(vehicles), FALSE)

SpecLive ==
  /\ Init
  /\ [][NextLive]_vars
  /\ WF_vars(LiveStop)
  /\ WF_vars(LiveClock)
  /\ WF_vars(TimerCallback)
  /\ WF_tickPos(TickRuns)
  /\ WF_vars(QueueWake)
  /\ WF_vars(SnapSettleR(SpacingRand))
  /\ WF_vars(DirectionsSettleR(SpacingRand))

----------------------------------------------------------------------------
(* Properties of the acquisition pipeline and of the tick *)

\* The acquisition requests for vehicles[i] that wait in pendingQueue or execute
Outstanding(i) ==
  Cardinality({k \in DOMAIN pendingQueue : pendingQueue[k].veh = i})
    + Cardinality({k \in DOMAIN running : running[k].task.veh = i})

\* The vehicle is moving along a valid route
Moving(v) == Len(getRouteCoordinates(v.route.geoJSON)) >= 2 /\ ~v.route.atEnd

\* C1: at every moment each vehicle has at most one route-acquisition request that is
\* waiting in pendingQueue or executing
C1_OneOutstandingRequestPerVehicle ==
  \A i \in DOMAIN vehicles : Outstanding(i) <= 1

\* C2: a vehicle that is moving along a valid route never has its route, its cursor or
\* its position replaced by an acquisition request that resolves: outside its own tick
\* step nothing about the vehicle changes
C2_RouteWrittenOnlyWhenAwaiting ==
  [][\A i \in DOMAIN vehicles :
        (Moving(vehicles[i]) /\ tickPos = 0 /\ i \in DOMAIN vehicles')
          => /\ vehicles'[i].route = vehicles[i].route
             /\ vehicles'[i].currentData.latitude = vehicles[i].currentData.latitude]_vars

\* C3: a tick never waits for an acquisition result.  While the loop of a tick is at
\* vehicles[k], the only step is the loop body for that vehicle, which moves the loop on
\* to the next vehicle at the same instant; it applies no acquisition result (no task
\* leaves the queue, no route is assigned, no failure is recorded) and a vehicle found
\* at its route's end has its request enqueued and keeps the position it stopped at
C3_TickNeverWaits ==
  [][tickPos # 0 =>
       /\ tickPos' = IF tickPos < Len(vehicles) THEN tickPos + 1 ELSE 0
       /\ now' = now
       /\ \A j \in DOMAIN vehicles :
            /\ j # tickPos => vehicles'[j] = vehicles[j]
            /\ vehicles'[j].route.geoJSON = vehicles[j].route.geoJSON
       /\ started' - started = Len(running') - Len(running)
       /\ DOMAIN vehicleStuckState' \subseteq DOMAIN vehicleStuckState
       /\ LET v == vehicles[tickPos]
              w == vehicles'[tickPos]
              coords == getRouteCoordinates(v.route.geoJSON)
          IN  (w.route.atEnd /\ vehicleStuckState' = vehicleStuckState)
                => /\ enqueued' = enqueued + 1 \/ w.nextRouteGenAt > now
                   /\ w.currentData.latitude =
                        IF v.route.atEnd \/ Len(coords) < 2 \/ tickDt <= 0
                          THEN v.currentData.latitude
                          ELSE coords[Len(coords)]]_vars

\* A tick has found vehicle 1 at its route's end, has enqueued a request that is still
\* outstanding, and has gone on to update vehicle 2 at the same instant
C3_Witness ==
  /\ tickPos = 0
  /\ tickCount >= 1
  /\ Len(vehicles) = 2
  /\ vehicles[1].route.atEnd
  /\ vehicles[1].nextRouteGenAt = lastTick + RETRY_DELAY_MS
  /\ \E k \in DOMAIN pendingQueue :
       /\ pendingQueue[k].veh = 1
       /\ pendingQueue[k].kind = "tick"
       /\ pendingQueue[k].nowTime = lastTick
  /\ vehicles[2].currentData.timestamp = lastTick
  /\ vehicles[1].currentData.latitude = REGIONAL_STATIONS[1]

\* C4: tasks run strictly one at a time in the order they were enqueued: at most one
\* task executes (so at most one external call is in flight), there is one consumer of
\* the queue, the task that executes is the latest one started, and the tasks that wait
\* are exactly the later ones, in order
C4_OneTaskAtATimeInOrder ==
  /\ Len(running) + Len(waiters) <= 1
  /\ running # << >> => running[1].task.seq = started
  /\ Len(pendingQueue) = enqueued - started
  /\ \A k \in DOMAIN pendingQueue : pendingQueue[k].seq = started + k
  /\ (running # << >> \/ waiters # << >>) => queueActive

\* A task other than the first executes while a later one, enqueued meanwhile, waits
C4_Witness ==
  /\ Len(running) = 1
  /\ running[1].task.seq >= 2
  /\ Len(pendingQueue) >= 1
  /\ pendingQueue[1].nowTime > running[1].task.nowTime

\* C5: any two consecutive outbound calls to the routing dependency start at least
\* API_MIN_INTERVAL_MS apart
C5_CallsSpaced ==
  calls.gap < 0 \/ calls.gap >= API_MIN_INTERVAL_MS

\* C6: every tick processes every vehicle and appends exactly one telemetry sample to
\* each, whatever became of the acquisition requests: a vehicle holds the sample of its
\* seeding and one sample for each tick that has reached it
C6_OneSamplePerVehiclePerTick ==
  \A j \in DOMAIN vehicles :
    Len(vehicles[j].historicalData) =
      IF tickPos = 0 \/ j < tickPos THEN 1 + tickCount ELSE tickCount

\* A tick has run to its end although the acquisition for vehicle 1 had failed before it
C6_Witness ==
  /\ tickPos = 0
  /\ tickCount >= 2
  /\ Len(vehicles) = 2
  /\ vehicles[1].route.atEnd
  /\ MapHas(vehicleStuckState, vehicles[1].id)
  /\ vehicleStuckState[vehicles[1].id].failedAt < lastTick
  /\ Len(vehicles[2].historicalData) = 1 + tickCount

----------------------------------------------------------------------------
(* Properties of the relocation of stuck vehicles and of the telemetry *)

\* The vehicle is waiting for a route
Awaiting(v) == v.route.atEnd \/ Len(getRouteCoordinates(v.route.geoJSON)) < 2

FallbackLatitudes == {FALLBACK_LOCATIONS[k] : k \in DOMAIN FALLBACK_LOCATIONS}

\* C7: when a tick reaches a vehicle that waits for a route and whose stuck state
\* records a failure ROUTE_FAILURE_TIMEOUT_MS or more ago, the vehicle's position
\* becomes one of FALLBACK_LOCATIONS, its speed becomes 0 and its entry in
\* vehicleStuckState is removed
C7_StuckVehicleRelocated ==
  [][(/\ tickPos # 0
      /\ Awaiting(vehicles[tickPos])
      /\ MapHas(vehicleStuckState, vehicles[tickPos].id)
      /\ now - vehicleStuckState[vehicles[tickPos].id].failedAt
           >= ROUTE_FAILURE_TIMEOUT_MS)
       => /\ vehicles'[tickPos].currentData.latitude \in FallbackLatitudes
          /\ vehicles'[tickPos].currentData.speed = 0
          /\ ~MapHas(vehicleStuckState', vehicles[tickPos].id)]_vars

\* Vehicle 1 never got a route, and the timeout after its seeding has passed: it stands
\* at a fallback location that is not its station, and it is no longer stuck
C7_Witness ==
  /\ tickPos = 0
  /\ Len(vehicles) >= 1
  /\ now - Epoch >= ROUTE_FAILURE_TIMEOUT_MS
  /\ getRouteCoordinates(vehicles[1].route.geoJSON) = << >>
  /\ vehicles[1].currentData.latitude = FALLBACK_LOCATIONS[3]
  /\ vehicles[1].currentData.latitude # REGIONAL_STATIONS[1]
  /\ vehicles[1].currentData.speed = 0
  /\ ~MapHas(vehicleStuckState, vehicles[1].id)

\* C8: the odometer of a vehicle never decreases
C8_OdometerNeverDecreases ==
  [][\A i \in DOMAIN vehicles :
        i \in DOMAIN vehicles'
          => vehicles'[i].currentData.odometer >= vehicles[i].currentData.odometer]_vars

\* A vehicle on a route was sampled at a speed above idling after the clock had gone
\* back: the distance of that tick was negative, and the odometer stayed as it was
C8_Witness ==
  \E i \in DOMAIN vehicles :
    LET h == vehicles[i].historicalData
        n == Len(h)
    IN  /\ n >= 2
        /\ h[n].timestamp < h[n - 1].timestamp
        /\ h[n].fuelConsumption > 0
        /\ h[n].odometer = h[n - 1].odometer
        /\ Moving(vehicles[i])

\* C9: for every vehicle in the registry the fuel level is within 0..100 percent, the
\* coolant temperature within 70..100 degC and the oil temperature within 75..115 degC
C9_TelemetryWithinClampRanges ==
  \A i \in DOMAIN vehicles :
    /\ vehicles[i].currentData.fuelLevel >= 0
    /\ vehicles[i].currentData.fuelLevel <= 1000000
    /\ vehicles[i].currentData.engineCoolantTemp >= 70000
    /\ vehicles[i].currentData.engineCoolantTemp <= 100000
    /\ vehicles[i].currentData.engineOilTemp >= 75000
    /\ vehicles[i].currentData.engineOilTemp <= 115000

\* A vehicle whose seeding raised its temperatures to the lower ends of their ranges
\* has since burnt its tank empty
C9_Witness ==
  \E i \in DOMAIN vehicles :
    /\ Len(vehicles[i].historicalData) >= 2
    /\ vehicles[i].historicalData[1].engineCoolantTemp = 70000
    /\ vehicles[i].historicalData[1].engineOilTemp = 75000
    /\ vehicles[i].currentData.fuelLevel = 0

\* C10: the history of a vehicle never holds more than MAX_HISTORY samples, and it is
\* the most recent samples in the order they were taken: one sample for each tick back
\* from the vehicle's current one, as many as were taken or MAX_HISTORY of them
C10_HistoryBoundedFifo ==
  \A i \in DOMAIN vehicles :
    LET h    == vehicles[i].historicalData
        last == vehicles[i].currentData.timestamp
    IN  /\ Len(h) <= MAX_HISTORY
        /\ Len(h) = Min(MAX_HISTORY, 1 + (last - Epoch) \div TICK_RATE_MS)
        /\ \A k \in DOMAIN h : h[k].timestamp = last - (Len(h) - k) * TICK_RATE_MS

\* More samples than MAX_HISTORY were taken: the history is full, and the sample of the
\* seeding is no longer its oldest one
C10_Witness ==
  /\ tickPos = 0
  /\ 1 + tickCount > MAX_HISTORY
  /\ Len(vehicles) = 1
  /\ Len(vehicles[1].historicalData) = MAX_HISTORY
  /\ vehicles[1].historicalData[1].timestamp
       = Epoch + (1 + tickCount - MAX_HISTORY) * TICK_RATE_MS

----------------------------------------------------------------------------
(* The end of a route *)

\* The last point of the route of v
RouteEnd(v) ==
  getRouteCoordinates(v.route.geoJSON)[Len(getRouteCoordinates(v.route.geoJSON))]

\* v has a route, has finished it and is not on its last point
OffRouteEnd(v) ==
  /\ v.route.atEnd
  /\ Len(getRouteCoordinates(v.route.geoJSON)) >= 2
  /\ v.currentData.latitude # RouteEnd(v)

----------------------------------------------------------------------------
(* The cursor *)

\* C12 as stated: from seeding onward, a vehicle whose route.atEnd is false has segIndex
\* within [0, number of route points - 2]
C12_CursorWithinRoute ==
  \A i \in DOMAIN vehicles :
    ~vehicles[i].route.atEnd =>
      /\ vehicles[i].route.segIndex >= 0
      /\ vehicles[i].route.segIndex
           <= Len(getRouteCoordinates(vehicles[i].route.geoJSON)) - 2

\* C12: a vehicle whose route.atEnd is false and whose route has at least two points has
\* segIndex within [0, number of route points - 2]
C12_CursorWithinAssignedRoute ==
  \A i \in DOMAIN vehicles :
    (~vehicles[i].route.atEnd
       /\ Len(getRouteCoordinates(vehicles[i].route.geoJSON)) >= 2) =>
      /\ vehicles[i].route.segIndex >= 0
      /\ vehicles[i].route.segIndex
           <= Len(getRouteCoordinates(vehicles[i].route.geoJSON)) - 2

\* A vehicle is under way on the last segment of a route of four points
C12_Witness ==
  \E i \in DOMAIN vehicles :
    /\ ~vehicles[i].route.atEnd
    /\ Len(getRouteCoordinates(vehicles[i].route.geoJSON)) = 4
    /\ vehicles[i].route.segIndex = 2
    /\ vehicles[i].route.segOffset > 0

----------------------------------------------------------------------------
(* The order of the history *)

----------------------------------------------------------------------------
(* Start and stop *)

\* What a call that does nothing leaves alone: everything but the record of the call
engineVars ==
  <<now, vehicles, timer, tickMs, nextTickAt, lastTick, emergencyStates, lastApiCallAt,
    pendingQueue, queueActive, consecutiveDirectionsFailures, vehicleStuckState,
    waiters, running, tickPos, tickDt, tickCount, enqueued, started, calls>>

\* This step is a call of the exported function op
Calls(op) == lastRequest'.seq # lastRequest.seq /\ lastRequest'.op = op

\* C14: startSimulation called while the simulation runs does nothing: the timer stays
\* the one it was, due when it was, and the registry holds the vehicles it held; so two
\* startSimulation calls in a row leave one timer and one seeded set of vehicles
C14_StartWhileRunningIsNoOp ==
  [][(Calls("startSimulation") /\ (timer \/ lastRequest.op = "startSimulation"))
       => (timer /\ UNCHANGED engineVars)]_vars

\* startSimulation has been called twice in a row and a tick has run since: one timer,
\* and as many vehicles as the first call seeded
C14_Witness ==
  /\ lastRequest.op = "startSimulation"
  /\ lastRequest.prev = "startSimulation"
  /\ lastRequest.seq = 2
  /\ timer
  /\ Len(vehicles) \in 1..MaxVehicles
  /\ tickCount >= 1

\* C15: stopSimulation leaves no timer and changes nothing else, nothing at all when no
\* timer was set; from its return until the next call no timer callback runs and no
\* tick is under way
C15_StopHaltsTicksAndIsIdempotent ==
  [][/\ Calls("stopSimulation") =>
          /\ ~timer'
          /\ UNCHANGED <<now, vehicles, tickMs, nextTickAt, lastTick, emergencyStates,
                         lastApiCallAt, pendingQueue, queueActive,
                         consecutiveDirectionsFailures, vehicleStuckState, waiters,
                         running, tickPos, tickDt, tickCount, enqueued, started, calls>>
          /\ ~timer => UNCHANGED engineVars
     /\ (lastRequest.op = "stopSimulation" /\ lastRequest' = lastRequest) =>
          /\ tickCount' = tickCount
          /\ tickPos = 0
          /\ tickPos' = 0]_vars

\* The engine was started, ran a tick, was stopped twice in a row, and the clock has
\* since passed the time at which the next tick was due
C15_Witness ==
  /\ lastRequest.op = "stopSimulation"
  /\ lastRequest.prev = "stopSimulation"
  /\ ~timer
  /\ Len(vehicles) > 0
  /\ tickCount >= 1
  /\ now >= nextTickAt + TICK_RATE_MS

----------------------------------------------------------------------------
(* Route assignment by the delivery layer *)

\* Some vehicle of the registry has this id
Registered(id) == \E i \in DOMAIN vehicles : vehicles[i].id = id

\* C16: setVehicleRoute(id, route) for a registered id and a route of two or more points
\* returns true and leaves the vehicle with that route, the cursor at (0, 0), atEnd
\* false, on the first point of the route and heading along its first segment, whatever
\* its route, cursor and atEnd flag were
C16_SetRouteRepositionsVehicle ==
  [][(/\ Calls("setVehicleRoute")
      /\ Registered(lastRequest'.id)
      /\ Len(lastRequest'.geoJSON.coords) >= 2) =>
       /\ lastRequest'.result
       /\ \A i \in DOMAIN vehicles :
            (/\ vehicles[i].id = lastRequest'.id
             /\ \A j \in 1..(i - 1) : vehicles[j].id # lastRequest'.id) =>
              /\ vehicles'[i].route.geoJSON = lastRequest'.geoJSON
              /\ vehicles'[i].route.segIndex = 0
              /\ vehicles'[i].route.segOffset = 0
              /\ ~vehicles'[i].route.atEnd
              /\ vehicles'[i].currentData.latitude = lastRequest'.geoJSON.coords[1]
              /\ vehicles'[i].currentData.heading =
                    IF lastRequest'.geoJSON.coords[2] >= lastRequest'.geoJSON.coords[1]
                      THEN 0 ELSE 180]_vars

\* A vehicle that had driven along a route to the north, off its first segment, has
\* been given a route to the south
C16_Witness ==
  /\ lastRequest.op = "setVehicleRoute"
  /\ lastRequest.prev = "setVehicleRoute"
  /\ lastRequest.result
  /\ lastRequest.geoJSON = DirectionsResponse("direct", 250, 100)
  /\ \E i \in DOMAIN vehicles :
       /\ vehicles[i].id = lastRequest.id
       /\ vehicles[i].route.geoJSON = lastRequest.geoJSON
       /\ vehicles[i].currentData.latitude = 250
       /\ vehicles[i].currentData.heading = 180
       /\ vehicles[i].currentData.odometer > LowSeed.odometer + 60

\* C17: setVehicleRoute with an id no vehicle has, or with a route of fewer than two
\* points, returns false and leaves the registry (every vehicle's route, cursor, atEnd
\* flag, position and heading) as it was
C17_SetRouteRejectsWithoutEffect ==
  [][(/\ Calls("setVehicleRoute")
      /\ \/ ~Registered(lastRequest'.id)
         \/ Len(lastRequest'.geoJSON.coords) < 2) =>
       /\ ~lastRequest'.result
       /\ UNCHANGED engineVars]_vars

\* With a vehicle under way on a route, a call for an unknown id with a route of two or
\* more points, the third call of all, has returned false
C17_Witness ==
  /\ lastRequest.op = "setVehicleRoute"
  /\ lastRequest.prev = "setVehicleRoute"
  /\ lastRequest.seq = 3
  /\ ~lastRequest.result
  /\ ~Registered(lastRequest.id)
  /\ Len(lastRequest.geoJSON.coords) >= 2
  /\ \E i \in DOMAIN vehicles :
       /\ ~vehicles[i].route.atEnd
       /\ Len(getRouteCoordinates(vehicles[i].route.geoJSON)) >= 2
       /\ vehicles[i].route.segOffset > 0

----------------------------------------------------------------------------
(* Traversal *)

\* The length of the route from its first point to its k-th
RECURSIVE PathKm(_, _)
PathKm(coords, k) ==
  IF k <= 1 THEN 0 ELSE PathKm(coords, k - 1) + Abs(coords[k] - coords[k - 1])

\* The distance from the start of its route to the cursor of v, and the length of the
\* route
CursorKm(v) ==
  PathKm(getRouteCoordinates(v.route.geoJSON), v.route.segIndex + 1) + v.route.segOffset
RouteKm(v) ==
  PathKm(getRouteCoordinates(v.route.geoJSON),
         Len(getRouteCoordinates(v.route.geoJSON)))

\* The distance this tick moves v by
TickKm(v) == v.currentData.speed * tickDt

\* C18: moveAlongRoute on a vehicle that is not atEnd, with its cursor p from the start
\* of a route of length L, and a distance d > 0, leaves the cursor at min(p + d, L);
\* atEnd is true afterwards exactly when p + d >= L, and then the vehicle is on the last
\* point with the cursor at the end of the last segment
C18_MoveConservesDistance ==
  [][\A i \in DOMAIN vehicles :
       (/\ tickCount' = tickCount + 1
        /\ ~vehicles[i].route.atEnd
        /\ Len(getRouteCoordinates(vehicles[i].route.geoJSON)) >= 2
        /\ TickKm(vehicles[i]) > 0) =>
         /\ CursorKm(vehicles'[i])
              = Min(CursorKm(vehicles[i]) + TickKm(vehicles[i]), RouteKm(vehicles[i]))
         /\ vehicles'[i].route.atEnd
              <=> (CursorKm(vehicles[i]) + TickKm(vehicles[i]) >= RouteKm(vehicles[i]))
         /\ vehicles'[i].route.atEnd =>
              /\ vehicles'[i].currentData.latitude = RouteEnd(vehicles[i])
              /\ vehicles'[i].route.segIndex
                   = Len(getRouteCoordinates(vehicles[i].route.geoJSON)) - 2
              /\ CursorKm(vehicles'[i]) = RouteKm(vehicles[i])]_vars

\* C19: a vehicle that starts a route of several segments and of length L and is moved
\* by the same distance d > 0 at every tick is atEnd after k ticks exactly when
\* k * d >= L, and is on the last point of the route whenever it is atEnd
C19_ArrivesOnTickAndStays ==
  \A i \in DOMAIN vehicles :
    (Len(getRouteCoordinates(vehicles[i].route.geoJSON)) >= 3
       /\ TickKm(vehicles[i]) > 0) =>
      /\ vehicles[i].route.atEnd
           <=> (tickCount * TickKm(vehicles[i]) >= RouteKm(vehicles[i]))
      /\ vehicles[i].route.atEnd =>
           vehicles[i].currentData.latitude = RouteEnd(vehicles[i])

\* C20: when moveAlongRoute moves a vehicle by exactly what is left of its segment, and
\* the segment is not the last one, the cursor is afterwards at the start of the next
\* segment, the vehicle on the point the two segments share and heading along the next
\* segment
C20_BoundaryStartsNextSegment ==
  [][\A i \in DOMAIN vehicles :
       LET v      == vehicles[i]
           coords == getRouteCoordinates(v.route.geoJSON)
           k      == v.route.segIndex
       IN  (/\ tickCount' = tickCount + 1
            /\ ~v.route.atEnd
            /\ k < Len(coords) - 2
            /\ TickKm(v) > 0
            /\ TickKm(v) = Abs(coords[k + 2] - coords[k + 1]) - v.route.segOffset) =>
             /\ vehicles'[i].route.segIndex = k + 1
             /\ vehicles'[i].route.segOffset = 0
             /\ vehicles'[i].currentData.latitude = coords[k + 2]
             /\ vehicles'[i].currentData.heading
                  = IF coords[k + 3] >= coords[k + 2] THEN 0 ELSE 180]_vars

\* A vehicle that went north along the first segment of a route has reached its end
\* exactly: it is at the start of the second segment, heading south
C20_Witness ==
  \E i \in DOMAIN vehicles :
    /\ getRouteCoordinates(vehicles[i].route.geoJSON) = <<0, 36, 12>>
    /\ tickCount >= 1
    /\ tickCount * TickKm(vehicles[i]) = 36
    /\ vehicles[i].route.segIndex = 1
    /\ vehicles[i].route.segOffset = 0
    /\ vehicles[i].currentData.latitude = 36
    /\ vehicles[i].currentData.heading = 180

\* What moveAlongRoute may write: the position, the heading and the cursor of v
Placement(v) ==
  <<v.currentData.latitude, v.currentData.heading, v.route.segIndex, v.route.segOffset,
    v.route.atEnd>>

\* C21: moveAlongRoute with a distance of 0 or less, on a route of fewer than two
\* points, or on a vehicle that is atEnd, leaves position, heading, segIndex, segOffset
\* and atEnd as they were
C21_MoveSkippedLeavesVehicle ==
  [][\A i \in DOMAIN vehicles :
       (/\ tickCount' = tickCount + 1
        /\ \/ TickKm(vehicles[i]) <= 0
           \/ Len(getRouteCoordinates(vehicles[i].route.geoJSON)) < 2
           \/ vehicles[i].route.atEnd) =>
         Placement(vehicles'[i]) = Placement(vehicles[i])]_vars

\* A vehicle on a route, under a clock that is set back, has been through two ticks of
\* negative distance and is still at the start
C21_Witness ==
  \E i \in DOMAIN vehicles :
    /\ tickCount >= 2
    /\ TickKm(vehicles[i]) < 0
    /\ Len(getRouteCoordinates(vehicles[i].route.geoJSON)) >= 3
    /\ ~vehicles[i].route.atEnd
    /\ vehicles[i].route.segIndex = 0
    /\ vehicles[i].route.segOffset = 0
    /\ vehicles[i].currentData.latitude = getRouteCoordinates(vehicles[i].route.geoJSON)[1]

----------------------------------------------------------------------------
(* The attempts of one acquisition *)

\* The execution, after this step, of the task that r executes now; << >> when the task
\* has ended
Continued(r) == SelectSeq(running', LAMBDA x : x.task.seq = r.task.seq)

\* C22: generateRandomRoute makes at most MAX_API_RETRIES + 1 directions attempts for a
\* request.  When a directions call fails on an earlier attempt the next attempt
\* starts; when it succeeds the request ends there, with no further attempt, and its
\* closure receives the route (it does not take its failure branch); when the last
\* attempt fails the request ends with null, which its closure records as a failure
\* of the vehicle, whatever the snap calls did.
C22_AtMostThreeAttemptsThenNull ==
  [][\A k \in DOMAIN running :
       LET r    == running[k]
           id   == vehicles[r.task.veh].id
           next == Continued(r)
       IN  /\ r.attempt <= MAX_API_RETRIES
           /\ (r.phase = "dir" /\ next # <<r>>) =>
                \/ /\ consecutiveDirectionsFailures' = 0
                   /\ next = << >>
                   /\ vehicleStuckState' = vehicleStuckState
                        \/ ~MapHas(vehicleStuckState', id)
                \/ /\ consecutiveDirectionsFailures' = consecutiveDirectionsFailures + 1
                   /\ r.attempt < MAX_API_RETRIES
                   /\ Len(next) = 1
                   /\ next[1].attempt = r.attempt + 1
                   /\ next[1].phase = "snap"
                   /\ vehicles' = vehicles
                   /\ vehicleStuckState' = vehicleStuckState
                \/ /\ consecutiveDirectionsFailures' = consecutiveDirectionsFailures + 1
                   /\ r.attempt = MAX_API_RETRIES
                   /\ next = << >>
                   /\ vehicles' = vehicles
                   /\ MapHas(vehicleStuckState', id)
                   /\ vehicleStuckState' # vehicleStuckState]_vars

\* The only request started so far has ended after three failed directions calls, and
\* its vehicle is recorded as failed
C22_Witness ==
  /\ started = 1
  /\ running = << >>
  /\ consecutiveDirectionsFailures = MAX_API_RETRIES + 1
  /\ Len(vehicles) >= 1
  /\ MapHas(vehicleStuckState, vehicles[1].id)


----------------------------------------------------------------------------
(* The end point of an attempt *)

Stations == {REGIONAL_STATIONS[k] : k \in DOMAIN REGIONAL_STATIONS}

\* The stations pickLocalFallback chooses among for a base: those between
\* MIN_LOCAL_RANGE km and 30 km away
StationsInBand(base) ==
  {loc \in Stations : Abs(loc - base) >= Km(MIN_LOCAL_RANGE) /\ Abs(loc - base) <= Km(30)}

\* The snap call of execution r failed, or its answer was rejected as too far from
\* the base (more than 1.8 times the attempt's maximum radius)
SnapUnusable(r) ==
  \/ ~r.snap.ok
  \/ Abs(r.snap.off) * 10 >
       Km(Max(MIN_LOCAL_RANGE + 1, MAX_LOCAL_RANGE - r.attempt * 2)) * 18

----------------------------------------------------------------------------
(* The spacing of the tasks *)

\* The directions call of execution r settles in this step with a failure: another
\* attempt follows, or the closure of the task records the failure of its vehicle
DirectionsFailed(r) ==
  /\ r.phase = "dir"
  /\ \/ Continued(r) \notin {<< >>, <<r>>}
     \/ /\ Continued(r) = << >>
        /\ MapHas(vehicleStuckState', vehicles[r.task.veh].id)
        /\ vehicleStuckState' # vehicleStuckState

\* The directions call of execution r settles in this step with a route
DirectionsSucceeded(r) ==
  /\ r.phase = "dir"
  /\ Continued(r) = << >>
  /\ ~DirectionsFailed(r)

\* C24: a queued task is started only when at least API_MIN_INTERVAL_MS +
\* min(1000 f, 7000) ms have passed since the task before it was started, f being the
\* number of directions failures since the last directions success: f goes up by one
\* with every directions failure, back to 0 with every directions success and changes
\* at no other time, and the spacing enforced lies between 3000 and 10000 ms.
C24_TasksSpacedAdaptively ==
  [][/\ started' # started =>
          /\ started' = started + 1
          /\ lastApiCallAt' = now
          /\ started >= 1 =>
               /\ now - lastApiCallAt >=
                    API_MIN_INTERVAL_MS + Min(1000 * consecutiveDirectionsFailures', 7000)
               /\ now - lastApiCallAt >= 3000
          /\ API_MIN_INTERVAL_MS + Min(1000 * consecutiveDirectionsFailures', 7000)
               \in 3000..10000
     /\ \A k \in DOMAIN running :
          /\ DirectionsFailed(running[k]) =>
               consecutiveDirectionsFailures' = consecutiveDirectionsFailures + 1
          /\ DirectionsSucceeded(running[k]) => consecutiveDirectionsFailures' = 0
     /\ (\A k \in DOMAIN running : running[k].phase # "dir" \/ Continued(running[k]) = <<running[k]>>)
          => consecutiveDirectionsFailures' = consecutiveDirectionsFailures]_vars

\* The fourth task starts 25 s after the first, every directions call so far having
\* failed: the tasks were started 6, 9 and 10 s apart
C24_Witness ==
  /\ started = 4
  /\ consecutiveDirectionsFailures = 3 * (MAX_API_RETRIES + 1)
  /\ lastApiCallAt = now
  /\ now = Epoch + 25000
  /\ Len(running) = 1
  /\ running[1].attempt = 0

----------------------------------------------------------------------------
(* The read accessors *)

\* The array of the last call, a call of getVehicles, is still the one it returned or
\* the caller made of it: no other call of the interface has been made since
HoldsVehicles == lastRequest.op = "getVehicles" /\ lastRequest'.seq = lastRequest.seq

\* The vehicle data that can be read through the array getVehicles returned
Visible(vs, array) == [k \in DOMAIN array.items |-> vs[array.items[k]]]

\* The caller changes the array, or a vehicle in it: the registry changes without a
\* tick being under way and without an acquisition settling
CallerStep ==
  \/ lastRequest' # lastRequest
  \/ tickPos = 0 /\ running' = running /\ vehicles' # vehicles

RECURSIVE SamplesFrom(_, _)
SamplesFrom(history, t) ==
  IF history = << >> THEN << >>
  ELSE IF Head(history).timestamp >= t
    THEN <<Head(history)>> \o SamplesFrom(Tail(history), t)
    ELSE SamplesFrom(Tail(history), t)

\* C26: getVehicleTelemetry(id, since) returns, in history order, exactly the samples of
\* the vehicle whose timestamp is since or later, a copy of the whole history when
\* since is omitted and an empty list when no vehicle has the id; it changes neither
\* the history nor anything else of the engine.
C26_TelemetryFromSince ==
  [][Calls("getVehicleTelemetry") =>
       LET id    == lastRequest'.id
           since == lastRequest'.geoJSON.coords
           got   == lastRequest'.result
       IN  /\ engineVars' = engineVars
           /\ got.own
           /\ ~Registered(id) => got.items = << >>
           /\ Registered(id) =>
                \E i \in DOMAIN vehicles :
                  /\ vehicles[i].id = id
                  /\ \A j \in 1..(i - 1) : vehicles[j].id # id
                  /\ got.items = IF since = << >> THEN vehicles[i].historicalData
                                 ELSE SamplesFrom(vehicles[i].historicalData, since[1])]_vars

\* A call with the timestamp of the latest sample of a history of three returned that
\* sample alone
C26_Witness ==
  /\ lastRequest.op = "getVehicleTelemetry"
  /\ Registered(lastRequest.id)
  /\ lastRequest.geoJSON.coords = <<now>>
  /\ Len(vehicles[1].historicalData) = 3
  /\ Len(lastRequest.result.items) = 1
  /\ lastRequest.result.items[1].timestamp = now

----------------------------------------------------------------------------
(* The ticks of the engine that awaits *)

\* The executions of tick that have begun and not finished
TicksUnderWay == {k \in DOMAIN running : running[k].kind = "tick"}

\* C27: no two executions of tick overlap: a tick begins only after the tick before it
\* has finished with all the vehicles, also when the acquisition it awaits takes
\* longer than the tick interval.
C27_TicksDoNotOverlap ==
  [][tickCount' = tickCount + 1 => TicksUnderWay = {}]_vars

\* Vehicle i is half-updated: an execution of tick has written its speed, position and
\* atEnd and has recorded neither its sample nor its timestamp
HalfUpdated(i) ==
  \E k \in TicksUnderWay :
    /\ running[k].veh = i
    /\ vehicles[i].route.atEnd
    /\ vehicles[i].currentData.speed = running[k].local.currentData.speed
    /\ vehicles[i].currentData.timestamp < running[k].at

\* C28: a read of the registry that is interleaved with tick processing never finds a
\* half-updated vehicle.
C28_ReadsSeeWholeUpdates ==
  [][Calls("getVehicles") => \A i \in DOMAIN vehicles : ~HalfUpdated(i)]_vars

-----------------------------------------------------------------------------
(* The relocation of a vehicle and the spacing of its acquisition requests *)

\* This step is the tick of vehicle i, and it relocates the vehicle: tick removes an
\* entry of vehicleStuckState only when it relocates
Relocates(i) ==
  /\ tickPos = i
  /\ MapHas(vehicleStuckState, vehicles[i].id)
  /\ ~MapHas(vehicleStuckState', vehicles[i].id)

\* C29: a vehicle is relocated only after it has been without a usable route for
\* ROUTE_FAILURE_TIMEOUT_MS or longer: the tick that relocates a vehicle finds it
\* waiting for a route already (it does not reach the end of a route it was driving in
\* this same tick), with a failure recorded ROUTE_FAILURE_TIMEOUT_MS or more ago
C29_RelocatedOnlyAfterWaiting ==
  [][\A i \in DOMAIN vehicles :
       Relocates(i) =>
         /\ Awaiting(vehicles[i])
         /\ now - vehicleStuckState[vehicles[i].id].failedAt
              >= ROUTE_FAILURE_TIMEOUT_MS]_vars

\* The acquisition requests that wait in pendingQueue or execute
OutstandingTasks ==
  {pendingQueue[k] : k \in DOMAIN pendingQueue}
    \cup {running[k].task : k \in DOMAIN running}

\* C30: two successive acquisition requests for a vehicle with no successful acquisition
\* between them are enqueued RETRY_DELAY_MS or more apart, and no request is enqueued
\* less than RETRY_DELAY_MS after a failed attempt completed.  When a tick enqueues a
\* request for a vehicle that never acquired a route, every earlier request for it that
\* still waits or executes was enqueued RETRY_DELAY_MS or more ago; and when the
\* vehicle's initial acquisition has failed (the record seed's closure leaves, stamped
\* with the time of the failure), that failure is RETRY_DELAY_MS or more ago
C30_RequestsSpacedByRetryDelay ==
  [][\A i \in DOMAIN vehicles :
       (tickPos = i /\ enqueued' = enqueued + 1) =>
         /\ getRouteCoordinates(vehicles[i].route.geoJSON) = << >> =>
              \A x \in OutstandingTasks :
                x.veh = i => now - x.nowTime >= RETRY_DELAY_MS
         /\ (/\ MapHas(vehicleStuckState, vehicles[i].id)
             /\ vehicleStuckState[vehicles[i].id].retryCount = 0) =>
              now - vehicleStuckState[vehicles[i].id].failedAt >= RETRY_DELAY_MS]_vars

-----------------------------------------------------------------------------
(* The identity of the vehicles over the life of the engine *)

\* C37: after any sequence of startSimulation and stopSimulation calls, no two vehicles
\* of the registry share an id
C37_VehicleIdsUnique ==
  \A i, j \in DOMAIN vehicles : vehicles[i].id = vehicles[j].id => i = j

-----------------------------------------------------------------------------
(* The emergency lights *)

\* This step is the tick of a vehicle with this id, at a time when the hold of its
\* emergency lights has run out
DecisionTick(id) ==
  /\ tickPos # 0
  /\ vehicles[tickPos].id = id
  /\ now >= emergencyStates[id].nextChangeAt

\* C31: the emergency-light state of a vehicle changes only in a tick of that vehicle
\* at which now >= nextChangeAt, and the toggle sets nextChangeAt EMERGENCY_MIN_HOLD_MS
\* or more ahead; a tick that declines to toggle sets nextChangeAt exactly
\* EMERGENCY_DEFER_MS ahead and leaves the state as it was; and the emergencyLights a
\* vehicle reports change only in such a tick
C31_LightsHeld ==
  [][/\ \A id \in DOMAIN emergencyStates :
          /\ id \in DOMAIN emergencyStates'
          /\ emergencyStates'[id].isOn # emergencyStates[id].isOn
               => /\ DecisionTick(id)
                  /\ emergencyStates'[id].nextChangeAt >= now + EMERGENCY_MIN_HOLD_MS
          /\ (DecisionTick(id) /\ emergencyStates'[id].isOn = emergencyStates[id].isOn)
               => emergencyStates'[id].nextChangeAt = now + EMERGENCY_DEFER_MS
     /\ \A i \in DOMAIN vehicles :
          vehicles'[i].currentData.emergencyLights
              # vehicles[i].currentData.emergencyLights
            => /\ tickPos = i
               /\ MapHas(emergencyStates, vehicles[i].id)
               /\ DecisionTick(vehicles[i].id)]_vars

-----------------------------------------------------------------------------
(* The speed of a vehicle that waits for a route *)

\* C32: whenever no tick is executing, every vehicle whose route.atEnd is true has
\* speed 0
C32_AtEndIsStationary ==
  tickPos = 0 =>
    \A i \in DOMAIN vehicles :
      vehicles[i].route.atEnd => vehicles[i].currentData.speed = 0

\* Between two ticks a vehicle stands at the end of a route it has driven, and an
\* acquisition for it has failed since
C32_Witness ==
  /\ tickPos = 0
  /\ \E i \in DOMAIN vehicles :
       /\ vehicles[i].route.atEnd
       /\ Len(getRouteCoordinates(vehicles[i].route.geoJSON)) >= 2
       /\ vehicles[i].currentData.latitude = RouteEnd(vehicles[i])
       /\ vehicles[i].currentData.speed = 0
       /\ MapHas(vehicleStuckState, vehicles[i].id)
       /\ vehicleStuckState[vehicles[i].id].retryCount >= 1

-----------------------------------------------------------------------------
(* A route of fewer than two points *)

\* C33: a vehicle whose route has fewer than 2 points is treated as having finished its
\* route: its tick sets atEnd, the traversal leaves its position as it was (only the
\* relocation of a vehicle stuck for too long moves it), and the tick enqueues an
\* acquisition request for it exactly when its nextRouteGenAt is not in the future
C33_ShortRouteIsExhausted ==
  [][\A i \in DOMAIN vehicles :
       (tickPos = i /\ Len(getRouteCoordinates(vehicles[i].route.geoJSON)) < 2) =>
         /\ vehicles'[i].route.atEnd
         /\ vehicles'[i].route.geoJSON = vehicles[i].route.geoJSON
         /\ \/ vehicles'[i].currentData.latitude = vehicles[i].currentData.latitude
            \/ Relocates(i)
         /\ IF vehicles[i].nextRouteGenAt # 0 /\ now < vehicles[i].nextRouteGenAt
              THEN enqueued' = enqueued
              ELSE /\ enqueued' = enqueued + 1
                   /\ \E x \in {pendingQueue'[k] : k \in DOMAIN pendingQueue'}
                             \cup {running'[k].task : k \in DOMAIN running'} :
                        x.seq = enqueued' /\ x.veh = i /\ x.kind = "tick"]_vars

\* A vehicle without a route has been ticked twice or more: it waits at its station
\* with atEnd set, the first tick has enqueued a request and the later ones, within the
\* backoff, have not
C33_Witness ==
  /\ tickPos = 0
  /\ tickCount >= 2
  /\ Len(vehicles) = 1
  /\ getRouteCoordinates(vehicles[1].route.geoJSON) = << >>
  /\ vehicles[1].route.atEnd
  /\ vehicles[1].currentData.latitude = REGIONAL_STATIONS[1]
  /\ now < vehicles[1].nextRouteGenAt
  /\ enqueued = 2

-----------------------------------------------------------------------------
(* The odometer *)

\* The distance the cursor of vehicles[i] advances along its route in this step
AdvancedKm(i) ==
  IF Len(getRouteCoordinates(vehicles[i].route.geoJSON)) >= 2
       /\ vehicles'[i].route.geoJSON = vehicles[i].route.geoJSON
    THEN CursorKm(vehicles'[i]) - CursorKm(vehicles[i])
    ELSE 0

\* C34: in a tick the odometer of a vehicle increases by exactly the distance its
\* cursor advances along its route in that tick: by nothing when the vehicle waits for
\* a route, and by what was left of the route when the tick reaches its end
C34_OdometerCountsAdvance ==
  [][\A i \in DOMAIN vehicles :
       tickPos = i =>
         vehicles'[i].currentData.odometer
           = vehicles[i].currentData.odometer + AdvancedKm(i)]_vars

-----------------------------------------------------------------------------
(* The cursor on its segment *)

\* The length of the segment the cursor of v is on
CursorSegKm(v) ==
  haversineKm(getRouteCoordinates(v.route.geoJSON)[v.route.segIndex + 1],
              getRouteCoordinates(v.route.geoJSON)[v.route.segIndex + 2])

-----------------------------------------------------------------------------
(* The length of the work queue *)

\* C36: the number of tasks waiting in pendingQueue never exceeds the number of
\* vehicles in the registry
C36_QueueBounded == Len(pendingQueue) <= Len(vehicles)

-----------------------------------------------------------------------------
(* The progress of the work queue *)

-----------------------------------------------------------------------------
(* The first route of a vehicle of the engine that awaits *)

\* The executions of seed that await the directions call for the first route of
\* their vehicle
SeedsAwaitingRoute ==
  {k \in DOMAIN running : running[k].kind = "seed" /\ running[k].phase = "dir"}

\* The registry after the directions call that running[k] awaits has settled with out
SeededBy(k, out) ==
  AwaitedSettled([vs |-> vehicles, es |-> emergencyStates, running |-> running],
                 k, out, now).vs

\* C40: when seed of the engine that awaits acquires a first route of two points or
\* more for a vehicle, the vehicle enters the registry with that route assigned: the
\* cursor at its start, atEnd false, the vehicle on the first point of the route.
C40_SeededWithAcquiredRoute ==
  \A k \in SeedsAwaitingRoute :
    \A out \in AwaitedOutcomes("dir") :
      LET geo == AwaitedRoute(out, running[k].start, running[k].end)
          vs  == SeededBy(k, out)
      IN  Len(getRouteCoordinates(geo)) >= 2 =>
            /\ Len(vs) = Len(vehicles) + 1
            /\ vs[Len(vs)].id = running[k].local.id
            /\ vs[Len(vs)].route.geoJSON = geo
            /\ vs[Len(vs)].route.segIndex = 0
            /\ vs[Len(vs)].route.segOffset = 0
            /\ ~vs[Len(vs)].route.atEnd
            /\ vs[Len(vs)].currentData.latitude = getRouteCoordinates(geo)[1]

-----------------------------------------------------------------------------
(* The engine after stopSimulation *)

\* stopSimulation has returned and startSimulation has not been called since
Stopped == ~timer /\ lastRequest.op = "stopSimulation"

\* The position, the route, the cursor and the history of vehicle i are left as they are
VehicleFrozen(i) ==
  /\ vehicles'[i].currentData.latitude = vehicles[i].currentData.latitude
  /\ vehicles'[i].route = vehicles[i].route
  /\ vehicles'[i].historicalData = vehicles[i].historicalData

\* C39: after stopSimulation has returned, the state of the simulation is frozen until
\* startSimulation is called again: no step changes the position, the route, the cursor
\* or the history of a vehicle, nor the stuck state, also when acquisition requests
\* were pending or in flight at the time of the call.
C39_FrozenAfterStop ==
  [][Stopped /\ ~Calls("startSimulation") =>
       /\ Len(vehicles') = Len(vehicles)
       /\ \A i \in DOMAIN vehicles : VehicleFrozen(i)
       /\ vehicleStuckState' = vehicleStuckState]_vars

============================================================================
